---------------------------- MODULE Spec2Model ----------------------------
(***************************************************************************)
(* Model of the OrpheusDL YouTube module: the title cleaner, the           *)
(* artist/title splitter, the URL classifier, the preview format selector, *)
(* the channel thumbnail lookup and the track metadata normaliser.         *)
(*                                                                         *)
(* A Python str is a sequence of one-character strings.  Characters that   *)
(* the module language cannot spell in a string have a name (EnDash,       *)
(* Bullet, EAcute).  Python's None is NoneVal.                             *)
(***************************************************************************)
EXTENDS Integers, Sequences, FiniteSets, TLC

VARIABLES
    op,     \* the operation called: "none" before the call
    pc,     \* "call" before the operation has run, "done" after it returned
    arg,    \* the arguments of the call
    ret     \* the value returned, NoneVal before the return

vars == <<op, pc, arg, ret>>

---------------------------------------------------------------------------
(* Characters and Python values                                            *)

EnDash == "U+2013"
Bullet == "U+2022"
EAcute == "U+00E9"
EAcuteUpper == "U+00C9"

\* None: a value that is no str (its one element is not a character)
NoneVal == <<"None">>

\* Python truthiness of a str-or-None value
Truthy(v) == v # NoneVal /\ v # <<>>

\* a or b
Or(a, b) == IF Truthy(a) THEN a ELSE b

UpperLetters ==
    {"A", "B", "C", "D", "E", "F", "G", "H", "I", "J", "K", "L", "M",
     "N", "O", "P", "Q", "R", "S", "T", "U", "V", "W", "X", "Y", "Z"}

LowerLetters ==
    {"a", "b", "c", "d", "e", "f", "g", "h", "i", "j", "k", "l", "m",
     "n", "o", "p", "q", "r", "s", "t", "u", "v", "w", "x", "y", "z"}

Digits == {"0", "1", "2", "3", "4", "5", "6", "7", "8", "9"}

LowerOf ==
    [c \in UpperLetters \cup {EAcuteUpper} |->
        CASE c = "A" -> "a" [] c = "B" -> "b" [] c = "C" -> "c" [] c = "D" -> "d"
          [] c = "E" -> "e" [] c = "F" -> "f" [] c = "G" -> "g" [] c = "H" -> "h"
          [] c = "I" -> "i" [] c = "J" -> "j" [] c = "K" -> "k" [] c = "L" -> "l"
          [] c = "M" -> "m" [] c = "N" -> "n" [] c = "O" -> "o" [] c = "P" -> "p"
          [] c = "Q" -> "q" [] c = "R" -> "r" [] c = "S" -> "s" [] c = "T" -> "t"
          [] c = "U" -> "u" [] c = "V" -> "v" [] c = "W" -> "w" [] c = "X" -> "x"
          [] c = "Y" -> "y" [] c = "Z" -> "z" [] c = EAcuteUpper -> EAcute]

\* str.lower() on one character, and the case folding of re.IGNORECASE
LowerChar(c) == IF c \in DOMAIN LowerOf THEN LowerOf[c] ELSE c

\* str.lower()
Lower(s) == [i \in 1..Len(s) |-> LowerChar(s[i])]

\* \s of the re module
IsSpace(c) == c \in {" ", "\t", "\n", "\r"}

\* \d of the re module
IsDigit(c) == c \in Digits

\* \w of the re module
IsWord(c) == c \in UpperLetters \cup LowerLetters \cup Digits \cup {"_", EAcute, EAcuteUpper}

\* the first index >= p of s that holds no whitespace (Len(s) + 1 when none):
\* where a greedy \s* that starts at p stops
RECURSIVE SkipSpace(_, _)
SkipSpace(s, p) ==
    IF p <= Len(s) /\ IsSpace(s[p]) THEN SkipSpace(s, p + 1) ELSE p

\* the first index >= p of s that holds no digit: where a greedy \d* stops
RECURSIVE SkipDigits(_, _)
SkipDigits(s, p) ==
    IF p <= Len(s) /\ IsDigit(s[p]) THEN SkipDigits(s, p + 1) ELSE p

\* s[p:] starts with lit
StartsWithAt(s, lit, p) ==
    /\ p + Len(lit) - 1 <= Len(s)
    /\ SubSeq(s, p, p + Len(lit) - 1) = lit

\* a in b, for two str
Contains(b, a) == \E p \in 1..(Len(b) + 1) : StartsWithAt(b, a, p)

\* str.endswith
EndsWith(s, suffix) ==
    Len(suffix) <= Len(s) /\ SubSeq(s, Len(s) - Len(suffix) + 1, Len(s)) = suffix

\* str.strip()
RECURSIVE RStrip(_)
RStrip(s) ==
    IF s # <<>> /\ IsSpace(s[Len(s)]) THEN RStrip(SubSeq(s, 1, Len(s) - 1)) ELSE s

StripStr(s) ==
    LET r == RStrip(s) IN SubSeq(r, SkipSpace(r, 1), Len(r))

\* the concatenation of a sequence of str
RECURSIVE Join(_)
Join(parts) ==
    IF parts = <<>> THEN <<>> ELSE Head(parts) \o Join(Tail(parts))

\* the sequences over S of length at most n
SeqsUpTo(S, n) == UNION {[1..k -> S] : k \in 0..n}

Min(S) == CHOOSE x \in S : \A y \in S : x <= y

---------------------------------------------------------------------------
(* ModuleInterface._clean_title                                            *)

\* the regex element \d+ inside a tag
DigitsPlus == "\\d+"

\* the tag vocabulary, in the order of the alternation
tags ==
  <<
    <<"O", "f", "f", "i", "c", "i", "a", "l", " ", "V", "i", "d", "e", "o">>,
    <<"O", "f", "f", "i", "c", "i", "a", "l", " ", "M", "u", "s", "i", "c", " ", "V", "i", "d", "e", "o">>,
    <<"O", "f", "f", "i", "c", "i", "a", "l", " ", "L", "y", "r", "i", "c", " ", "V", "i", "d", "e", "o">>,
    <<"M", "u", "s", "i", "c", " ", "V", "i", "d", "e", "o">>,
    <<"L", "y", "r", "i", "c", " ", "V", "i", "d", "e", "o">>,
    <<"V", "i", "d", "e", "o", " ", "O", "f", "i", "c", "i", "a", "l">>,
    <<"V", "i", "d", "e", "o", "c", "l", "i", "p", " ", "O", "f", "i", "c", "i", "a", "l">>,
    <<"O", "f", "f", "i", "c", "i", "a", "l">>,
    <<"V", "i", "d", "e", "o">>,
    <<"P", "s", "e", "u", "d", "o", " ", "V", "i", "d", "e", "o">>,
    <<"V", "i", "s", "u", "a", "l", "i", "z", "e", "r">>,
    <<"V", "I", "S", "U", "A", "L", "I", "Z", "E", "R">>,
    <<"O", "f", "f", "i", "c", "i", "a", "l", " ", "H", "D", " ", "V", "i", "d", "e", "o">>,
    <<"O", "f", "f", "i", "c", "i", "a", "l", " ", "4", "K", " ", "V", "i", "d", "e", "o">>,
    <<"P", "r", "e", "m", "i", "e", "r", "e">>,
    <<"V", "i", "s", "u", "a", "l", "i", "z", "e", "r", " ", "V", "i", "d", "e", "o">>,
    <<"O", "f", "f", "i", "c", "i", "a", "l", " ", "C", "a", "n", "t", "o", "Y", "o", " ", "V", "i", "d", "e", "o">>,
    <<"O", "f", "f", "i", "c", "i", "a", "l", " ", "V", "i", "d", "e", "o", " ", "H", "D">>,
    <<"O", "f", "f", "i", "c", "i", "a", "l", " ", "T", "r", "a", "i", "l", "e", "r">>,
    <<"M", "/", "V">>,
    <<"C", "o", "v", "e", "r", " ", "A", "u", "d", "i", "o", " ", "V", "i", "d", "e", "o">>,
    <<"R", "e", "m", "a", "s", "t", "e", "r", "e", "d", " ", "V", "i", "d", "e", "o">>,
    <<"A", "c", "o", "u", "s", "t", "i", "c", " ", "V", "i", "d", "e", "o">>,
    <<"O", "f", "f", "i", "c", "a", "l", " ", "V", "i", "d", "e", "o">>,
    <<"V", "i", "s", "u", "a", "l", "i", "s", "e", "r">>,
    <<"A", "n", "i", "m", "a", "t", "e", "d", " ", "L", "y", "r", "i", "c", " ", "V", "i", "d", "e", "o">>,
    <<"O", "f", "f", "i", "c", "i", "a", "l", " ", "V", "i", "d", "e", "o", " ", "R", "e", "m", "a", "s", "t", "e", "r", "e", "d", " ", "H", "D">>,
    <<"L", "y", "r", "i", "c", "s", " ", "/", " ", "L", "y", "r", "i", "c", " ", "V", "i", "d", "e", "o">>,
    <<"O", "f", "f", "i", "c", "i", "a", "l", " ", "L", "i", "v", "e", " ", "V", "i", "d", "e", "o">>,
    <<"O", "f", "f", "i", "c", "i", "a", "l", " ", "C", "l", "a", "s", "s", "i", "c", " ", "V", "e", "r", "s", "i", "o", "n">>,
    <<"A", "n", "i", "m", "a", "t", "e", "d", " ", "V", "i", "d", "e", "o">>,
    <<"O", "f", "f", "i", "c", "i", "a", "l", " ", "V", "i", "d", "e", "o", " ", "2", "0", "1", "6">>,
    <<"O", "f", "f", "i", "c", "i", "a", "l", " ", "V", "i", "d", "e", "o", " ", "2", "0", "2", "1">>,
    <<"O", "f", "f", "i", "c", "i", "a", "l", " ", "V", "i", "d", "e", "o", " ", "H", "Q">>,
    <<"O", "f", "f", "i", "c", "i", "a", "l", " ", "M", "u", "s", "i", "c", " ", "V", "i", "d", EAcute, "o">>,
    <<"V", "I", "D", "E", "O", " ", "O", "F", "F", "I", "C", "I", "A", "L">>,
    <<"O", "f", "f", "i", "c", "i", "a", "l", " ", "V", "e", "d", "i", "o">>,
    <<"*", "*", "O", "F", "F", "I", "C", "I", "A", "L", " ", "V", "I", "D", "E", "O", "*", "*">>,
    <<"P", "o", "p", "-", "u", "p", " ", "V", "i", "d", "e", "o">>,
    <<"A", "u", "d", "i", "o">>,
    <<"O", "f", "f", "i", "c", "i", "a", "l", " ", "A", "u", "d", "i", "o">>,
    <<"A", "u", "d", "i", "o", " ", "S", "t", "r", "e", "a", "m">>,
    <<"O", "f", "f", "i", "c", "i", "a", "l", " ", "F", "u", "l", "l", " ", "S", "t", "r", "e", "a", "m">>,
    <<"C", "o", "v", "e", "r", " ", "A", "r", "t">>,
    <<"A", "u", "d", "i", "o", " ", "O", "n", "l", "y">>,
    <<"A", "u", "d", "i", "o", " ", "O", "f", "f", "i", "c", "i", "e", "l">>,
    <<"A", "u", "d", "i", "o", " ", "O", "f", "i", "c", "i", "a", "l">>,
    <<"H", "D">>,
    <<"4", "K", " ", "R", "e", "m", "a", "s", "t", "e", "r">>,
    <<"R", "e", "m", "a", "s", "t", "e", "r", "e", "d", " ", DigitsPlus>>,
    <<"F", "u", "l", "l", " ", "H", "D", " ", "R", "e", "m", "a", "s", "t", "e", "r", "e", "d">>,
    <<"B", "e", "s", "t", " ", "Q", "u", "a", "l", "i", "t", "y">>,
    <<"U", "l", "t", "r", "a", " ", "H", "i", "g", "h", " ", "Q", "u", "a", "l", "i", "t", "y">>,
    <<"6", "0", "f", "p", "s">>,
    <<"9", "8", " ", "B", "P", "M", "_", "G", " ", "m", "a", "j", "o", "r">>,
    <<"S", "t", "e", "r", "e", "o">>,
    <<"H", "Q", " ", "+", " ", "L", "y", "r", "i", "c", "s">>,
    <<"H", "Q">>,
    <<"H", "Q", " ", "R", "e", "m", "a", "s", "t", "e", "r">>,
    <<"w", "m", "v">>,
    <<"3", "0", "s", "e", "c">>,
    <<"7", "2", "0", "P">>,
    <<"1", "0", "8", "0", "P">>,
    <<"f", "l", "v">>,
    <<"m", "o", "v">>,
    <<"F", "u", "l", "l", " ", "V", "e", "r", "s", "i", "o", "n", " ", "H", "D">>,
    <<"i", "n", " ", "4", "K">>,
    <<"H", "Q", " ", "H", "D", " ", "D", "i", "r", "t", "y">>,
    <<"H", "D", " ", "W", "i", "d", "e", "s", "c", "r", "e", "e", "n", " ", "M", "u", "s", "i", "c", " ", "V", "i", "d", "e", "o">>,
    <<"E", "x", "p", "l", "i", "c", "i", "t">>,
    <<"U", "N", "C", "E", "N", "S", "O", "R", "E", "D">>,
    <<"L", "y", "r", "i", "c", "s">>,
    <<"F", "r", "e", "e">>,
    <<"w", "/", " ", "L", "y", "r", "i", "c", "s">>,
    <<"U", "l", "t", "r", "a", " ", "M", "u", "s", "i", "c">>,
    <<"S", "p", "i", "n", "n", "i", "n", " ", "R", "e", "c", "o", "r", "d", "s">>,
    <<"O", "U", "T", " ", "N", "O", "W">>,
    <<"O", "U", "T", " ", "N", "O", "W", "!">>,
    <<"Y", "H", "L", "Q", "M", "D", "L", "G">>,
    <<"T", "o", "p", "P", "o", "p">>,
    <<"L", "Y", "R", "I", "C", "S", "!", "!">>,
    <<"R", "i", "n", "g", "t", "o", "n", "e", " ", "D", "o", "w", "n", "l", "o", "a", "d">>,
    <<"N", "e", "w", " ", "S", "i", "n", "g", "l", "e">>,
    <<"E", "n", "g", "l", "i", "s", "h">>,
    <<"F", "R", "E", "E", " ", "D", "O", "W", "N", "L", "O", "A", "D">>,
    <<"L", "Y", "R", "I", "C", "S">>,
    <<"w", "i", "t", "h", " ", "l", "y", "r", "i", "c", "s">>,
    <<"w", "i", "t", "h", " ", "d", "o", "w", "n", "l", "o", "a", "d", " ", "l", "i", "n", "k">>,
    <<"D", "O", "W", "N", "L", "O", "A", "D", " ", "A", "V", "A", "I", "L", "A", "B", "L", "E", "!">>,
    <<"O", "r", "i", "g", "i", "n", "a", "l">>,
    <<"o", "r", "i", "g", "i", "n", "a", "l">>,
    <<"F", "u", "l", "l", " ", "L", "e", "n", "g", "t", "h">>,
    <<"F", "U", "L", "L">>,
    <<"L", "y", "r", "i", "c", "s", " ", "V", "i", "d", "e", "o">>,
    <<"C", "D", "Q">>,
    <<"N", "e", "w", "/", "C", "D", "Q", "/", "D", "i", "r", "t", "y">>,
    <<"o", "n", " ", "I", "T", "U", "N", "E", "S", " ", "N", "O", "W">>,
    <<"O", "r", "i", "g", "i", "n", "a", "l", " ", "R", "a", "d", "i", "o">>,
    <<"O", "u", "t", " ", "N", "o", "w", "!">>,
    <<"D", "V", "D", " ", "C", "u", "t">>,
    <<"L", "y", "r", "i", "c", "l", "i", "z", "e", "r">>,
    <<"O", "f", "f", "i", "c", "i", "a", "l", " ", "V", "e", "r", "s", "i", "o", "n">>,
    <<"W", "S", "H", "H", " ", "E", "x", "c", "l", "u", "s", "i", "v", "e">>,
    <<"W", "S", "H", "H", " ", "P", "r", "e", "m", "i", "e", "r", "e">>,
    <<"C", "L", "I", "P", "E", " ", "O", "F", "I", "C", "I", "A", "L">>,
    <<"n", "o", "n", "-", "o", "f", "f", "i", "c", "i", "a", "l", " ", "r", "e", "c", "u", "t">>,
    <<"D", "i", "r", "t", "y">>,
    <<"V", "i", "d", "e", "o", "c", "l", "i", "p">>
  >>

\* [\(\[\|\{\-\.\/•\+] : the characters that open a tag
LeadDelims == {"(", "[", "|", "{", "-", ".", "/", Bullet, "+"}

\* [\)\]\|\}\-\.\/•\+] : the characters that close a tag
TrailDelims == {")", "]", "|", "}", "-", ".", "/", Bullet, "+"}

\* Step 1: title.replace(en-dash, '-')
ReplaceEnDash(title) ==
    [i \in 1..Len(title) |-> IF title[i] = EnDash THEN "-" ELSE title[i]]

\* \s*#\w+.*$ matches from position p
HashtagMatchAt(t, p) ==
    LET q == SkipSpace(t, p)
    IN  q < Len(t) /\ t[q] = "#" /\ IsWord(t[q + 1])

\* Step 2: re.sub(r'\s*#\w+.*$', '', title): the leftmost match runs to the end
RemoveHashtags(t) ==
    LET starts == {p \in 1..Len(t) : HashtagMatchAt(t, p)}
    IN  IF starts = {} THEN t ELSE SubSeq(t, 1, Min(starts) - 1)

\* the index after the match of tag elements k.. at position p of t under
\* re.IGNORECASE, 0 when they do not match
RECURSIVE TagEnd(_, _, _, _)
TagEnd(t, p, tag, k) ==
    IF k > Len(tag) THEN p
    ELSE IF p > Len(t) THEN 0
    ELSE IF tag[k] = DigitsPlus
         THEN IF IsDigit(t[p]) THEN TagEnd(t, SkipDigits(t, p), tag, k + 1) ELSE 0
    ELSE IF LowerChar(t[p]) = LowerChar(tag[k]) THEN TagEnd(t, p + 1, tag, k + 1)
    ELSE 0

\* the indices of the tags by the (case-folded) first character they need,
\* in the order of the alternation
TagsByFirst ==
    [c \in {LowerChar(tags[j][1]) : j \in 1..Len(tags)} |->
        SelectSeq([j \in 1..Len(tags) |-> j], LAMBDA j : LowerChar(tags[j][1]) = c)]

\* \s*(?:[\)\]\|\}\-\.\/•\+]|\s*$) from position p: the index after it, 0 when
\* it does not match
TailEnd(t, p) ==
    LET s == SkipSpace(t, p)
    IN  IF s > Len(t) THEN s
        ELSE IF t[s] \in TrailDelims THEN s + 1
        ELSE 0

\* (tag1|tag2|...) followed by the tail, from position p: the alternatives are
\* tried in order and the first one after which the tail matches is taken
RECURSIVE TagAndTailEnd(_, _, _)
TagAndTailEnd(t, p, candidates) ==
    IF candidates = <<>> THEN 0
    ELSE LET e == TagEnd(t, p, tags[Head(candidates)], 1)
             f == IF e = 0 THEN 0 ELSE TailEnd(t, e)
         IN  IF f # 0 THEN f ELSE TagAndTailEnd(t, p, Tail(candidates))

\* PatternEnd without the opening delimiter: a tag matches wherever it stands
PatternEndNoLead(t, p) ==
    LET r == SkipSpace(t, p)
    IN  IF r > Len(t) \/ LowerChar(t[r]) \notin DOMAIN TagsByFirst THEN 0
        ELSE TagAndTailEnd(t, r, TagsByFirst[LowerChar(t[r])])

\* the whole pattern from position p: the index after the match, 0 when it does
\* not match
PatternEnd(t, p) ==
    LET q == SkipSpace(t, p)
    IN  IF q > Len(t) \/ t[q] \notin LeadDelims THEN 0
        ELSE LET r == SkipSpace(t, q + 1)
             IN  IF r > Len(t) \/ LowerChar(t[r]) \notin DOMAIN TagsByFirst THEN 0
                 ELSE TagAndTailEnd(t, r, TagsByFirst[LowerChar(t[r])])

\* the indices of t inside a match of the pattern, searching from position p on:
\* re.sub finds the matches left to right and they do not overlap
RECURSIVE MatchedIndices(_, _)
MatchedIndices(t, p) ==
    IF p > Len(t) THEN {}
    ELSE LET e == PatternEnd(t, p)
         IN  IF e # 0 THEN (p..(e - 1)) \cup MatchedIndices(t, e)
             ELSE MatchedIndices(t, p + 1)

\* Step 3: re.sub(pattern, '', title, flags=re.IGNORECASE)
RemoveTags(t) ==
    LET gone == MatchedIndices(t, 1)
        kept == SelectSeq([i \in 1..Len(t) |-> i], LAMBDA i : i \notin gone)
    IN  [k \in 1..Len(kept) |-> t[kept[k]]]

\* re.sub(r'\s+', ' ', s) from position p on
RECURSIVE CollapseFrom(_, _)
CollapseFrom(s, p) ==
    IF p > Len(s) THEN <<>>
    ELSE IF IsSpace(s[p]) THEN <<" ">> \o CollapseFrom(s, SkipSpace(s, p))
    ELSE <<s[p]>> \o CollapseFrom(s, p + 1)

\* Step 4: re.sub(r'\s+', ' ', clean_title).strip()
CollapseWhitespace(s) == StripStr(CollapseFrom(s, 1))

\* _clean_title(title)
CleanTitle(title) ==
    IF ~Truthy(title) THEN title
    ELSE CollapseWhitespace(RemoveTags(RemoveHashtags(ReplaceEnDash(title))))

---------------------------------------------------------------------------
(* ModuleInterface._parse_title_artist                                     *)

\* [-:–] : the separators between artist and title
Separators == {"-", ":", EnDash}

\* where the group <title> starts when the group <artist> is title[1..i] and
\* \s+[-:–]\s+(?P<title>.+)$ matches behind it, 0 when it does not match.
\* Each \s+ is greedy and gives one character back when the whitespace runs to
\* the end of the string, for .+ to match it.
TitleGroupStart(title, i) ==
    LET q == SkipSpace(title, i + 1)
    IN  IF q = i + 1 \/ q > Len(title) \/ title[q] \notin Separators THEN 0
        ELSE LET w == SkipSpace(title, q + 1)
                 g == IF w <= Len(title) THEN w ELSE Len(title)
             IN  IF g >= q + 2 THEN g ELSE 0

\* _parse_title_artist with the containment checked in one direction only
ParseTitleArtistOneWay(title, uploader) ==
    LET ends == {i \in 1..Len(title) : TitleGroupStart(title, i) # 0}
    IN  IF ends = {} THEN <<uploader, title>>
        ELSE LET i == Min(ends)
                 extracted_artist == StripStr(SubSeq(title, 1, i))
                 extracted_title ==
                     StripStr(SubSeq(title, TitleGroupStart(title, i), Len(title)))
             IN  IF Contains(Lower(extracted_artist), Lower(uploader))
                 THEN <<extracted_artist, extracted_title>>
                 ELSE <<uploader, title>>

\* _parse_title_artist(title, uploader): (artist, title).
\* re.search(r"^(?P<artist>.+?)\s+[-:–]\s+(?P<title>.+)$", title): the group
\* <artist> is lazy, so it ends at the first index after which the rest matches
ParseTitleArtist(title, uploader) ==
    LET ends == {i \in 1..Len(title) : TitleGroupStart(title, i) # 0}
    IN  IF ends = {} THEN <<uploader, title>>
        ELSE LET i == Min(ends)
                 extracted_artist == StripStr(SubSeq(title, 1, i))
                 extracted_title ==
                     StripStr(SubSeq(title, TitleGroupStart(title, i), Len(title)))
             IN  IF \/ Contains(Lower(extracted_artist), Lower(uploader))
                    \/ Contains(Lower(uploader), Lower(extracted_artist))
                 THEN <<extracted_artist, extracted_title>>
                 ELSE <<uploader, title>>

---------------------------------------------------------------------------
(* parse_youtube_url and ModuleInterface.custom_url_parse                  *)

\* [a-zA-Z0-9_-]
IsIdChar(c) == c \in UpperLetters \cup LowerLetters \cup Digits \cup {"_", "-"}

\* the first index >= p of s that holds no id character: where a greedy
\* [a-zA-Z0-9_-]* stops
RECURSIVE SkipIdChars(_, _)
SkipIdChars(s, p) ==
    IF p <= Len(s) /\ IsIdChar(s[p]) THEN SkipIdChars(s, p + 1) ELSE p

YoutubeCom == <<"y", "o", "u", "t", "u", "b", "e", ".", "c", "o", "m">>
ListEquals == <<"l", "i", "s", "t", "=">>

\* the literal heads of the video patterns, pattern by pattern: each is
\* followed by ([a-zA-Z0-9_-]{11})
video_patterns ==
    << {YoutubeCom \o <<"/", "w", "a", "t", "c", "h", "?", "v", "=">>,
        <<"y", "o", "u", "t", "u", ".", "b", "e", "/">>},
       {YoutubeCom \o <<"/", "e", "m", "b", "e", "d", "/">>},
       {YoutubeCom \o <<"/", "v", "/">>} >>

\* the literal head of the playlist pattern, followed by ([a-zA-Z0-9_-]+)
playlist_pattern ==
    {YoutubeCom \o <<"/", "p", "l", "a", "y", "l", "i", "s", "t", "?">> \o ListEquals}

\* [?&]list= , followed by ([a-zA-Z0-9_-]+)
playlist_in_video_pattern == {<<"?">> \o ListEquals, <<"&">> \o ListEquals}

\* the literal heads of the channel patterns, each followed by
\* ([a-zA-Z0-9_-]+)
channel_patterns ==
    << {YoutubeCom \o <<"/", "c", "h", "a", "n", "n", "e", "l", "/">>},
       {YoutubeCom \o <<"/", "c", "/">>},
       {YoutubeCom \o <<"/", "@">>} >>

VideoIdLen == 11

\* a group that takes every id character that follows the head, also when
\* the pattern gives a width: [a-zA-Z0-9_-]+ in the place of {11}
GroupAtGreedy(url, heads, width, p) ==
    LET hs == {h \in heads : StartsWithAt(url, h, p)}
    IN  IF hs = {} THEN NoneVal
        ELSE LET h == CHOOSE x \in hs : TRUE
                 from == p + Len(h)
                 stop == SkipIdChars(url, from)
             IN  IF stop - from >= width /\ stop > from
                 THEN SubSeq(url, from, stop - 1) ELSE NoneVal

\* the group of the match of one of `heads` followed by id characters at
\* position p of url, NoneVal when there is no match there: exactly `width`
\* id characters when width > 0, one or more (greedy) when width = 0
GroupAt(url, heads, width, p) ==
    LET hs == {h \in heads : StartsWithAt(url, h, p)}
    IN  IF hs = {} THEN NoneVal
        ELSE LET h == CHOOSE x \in hs : TRUE
                 from == p + Len(h)
                 stop == SkipIdChars(url, from)
             IN  IF width > 0
                 THEN IF stop - from >= width
                      THEN SubSeq(url, from, from + width - 1) ELSE NoneVal
                 ELSE IF stop > from
                      THEN SubSeq(url, from, stop - 1) ELSE NoneVal

\* re.search(pattern, url): group 1 of the leftmost match, NoneVal without one
Search(url, heads, width) ==
    LET starts == {p \in 1..Len(url) : GroupAt(url, heads, width, p) # NoneVal}
    IN  IF starts = {} THEN NoneVal ELSE GroupAt(url, heads, width, Min(starts))

\* the patterns of a list are tried in order: group 1 of the first that matches
RECURSIVE FirstSearch(_, _, _)
FirstSearch(url, patterns, width) ==
    IF patterns = <<>> THEN NoneVal
    ELSE LET g == Search(url, Head(patterns), width)
         IN  IF g # NoneVal THEN g ELSE FirstSearch(url, Tail(patterns), width)

\* the result of parse_youtube_url that stands for None
NoLocator == [type |-> "None", id |-> NoneVal]

\* parse_youtube_url without its channel patterns: None after the playlists
ParseYoutubeUrlWithoutChannels(url) ==
    LET video == FirstSearch(url, video_patterns, VideoIdLen)
        playlist_match == Search(url, playlist_pattern, 0)
        playlist_in_video == Search(url, playlist_in_video_pattern, 0)
    IN  IF video # NoneVal THEN [type |-> "video", id |-> video]
        ELSE IF playlist_match # NoneVal
             THEN [type |-> "playlist", id |-> playlist_match]
        ELSE IF playlist_in_video # NoneVal
             THEN [type |-> "playlist", id |-> playlist_in_video]
        ELSE NoLocator

\* parse_youtube_url(url): {'type', 'id'}, or None
ParseYoutubeUrl(url) ==
    LET video == FirstSearch(url, video_patterns, VideoIdLen)
        playlist_match == Search(url, playlist_pattern, 0)
        playlist_in_video == Search(url, playlist_in_video_pattern, 0)
        channel == FirstSearch(url, channel_patterns, 0)
    IN  IF video # NoneVal THEN [type |-> "video", id |-> video]
        ELSE IF playlist_match # NoneVal
             THEN [type |-> "playlist", id |-> playlist_match]
        ELSE IF playlist_in_video # NoneVal
             THEN [type |-> "playlist", id |-> playlist_in_video]
        ELSE IF channel # NoneVal THEN [type |-> "channel", id |-> channel]
        ELSE NoLocator

\* the result of custom_url_parse that stands for None
NoMedia == [media_type |-> "None", media_id |-> NoneVal, data |-> {}]

\* custom_url_parse(link): MediaIdentification(media_type, media_id,
\* extra_kwargs={'data': {media_id: None}}), or None.  data is the set of the
\* keys of extra_kwargs['data'], each of which maps to None.
CustomUrlParse(link) ==
    LET parsed == ParseYoutubeUrl(link)
    IN  IF parsed = NoLocator THEN NoMedia
        ELSE IF parsed.type = "video"
             THEN [media_type |-> "track", media_id |-> parsed.id, data |-> {parsed.id}]
        ELSE IF parsed.type = "playlist"
             THEN [media_type |-> "playlist", media_id |-> parsed.id, data |-> {parsed.id}]
        ELSE IF parsed.type = "channel"
             THEN [media_type |-> "artist", media_id |-> parsed.id, data |-> {parsed.id}]
        ELSE NoMedia

---------------------------------------------------------------------------
(* ModuleInterface.get_preview_stream_url                                  *)

\* a key that the dictionary does not hold (dict.get gives its default)
Absent == <<"Absent">>

Opus == <<"o", "p", "u", "s">>
Aac == <<"a", "a", "c">>
Mp3 == <<"m", "p", "3">>
NoneCodec == <<"n", "o", "n", "e">>

\* preferred_codecs = ['opus', 'aac', 'mp3']
preferred_codecs == <<Opus, Aac, Mp3>>

\* A format is [acodec, vcodec, abr, tbr, url].  acodec and vcodec are a str,
\* NoneVal or Absent; abr and tbr are numbers, 0 standing for every falsy
\* value (no key, None, 0), which `get(k, 0) or ...` does not tell apart;
\* url is a str or NoneVal.

\* fmt.get('abr', 0) or fmt.get('tbr', 0) or 0
Bitrate(fmt) == IF fmt.abr # 0 THEN fmt.abr ELSE fmt.tbr

\* fmt.get('vcodec') == 'none' and fmt.get('acodec') != 'none'
IsAudioOnly(fmt) == fmt.vcodec = NoneCodec /\ fmt.acodec # NoneCodec

\* fmt.get('acodec', '').startswith(codec); None has no startswith
AcodecStartsWith(fmt, codec) ==
    LET acodec == IF fmt.acodec = Absent THEN <<>> ELSE fmt.acodec
    IN  StartsWithAt(acodec, codec, 1)

\* the test of line 527 raises AttributeError: acodec is None in a format
\* that passed the two tests before startswith
TestRaises(fmt) == IsAudioOnly(fmt) /\ fmt.acodec = NoneVal

\* the result of the selection when nothing is selected
NoFormat == [acodec |-> NoneVal, vcodec |-> NoneVal, abr |-> 0, tbr |-> 0, url |-> NoneVal]

\* the inner loop over formats[k..] for one codec, starting from `selected`
RECURSIVE ScanFormats(_, _, _, _)
ScanFormats(formats, k, codec, selected) ==
    IF k > Len(formats) THEN selected
    ELSE LET fmt == formats[k]
             next ==
                 IF IsAudioOnly(fmt) /\ AcodecStartsWith(fmt, codec)
                 THEN IF selected = NoFormat THEN fmt
                      ELSE IF Bitrate(fmt) < Bitrate(selected) THEN fmt
                      ELSE selected
                 ELSE selected
         IN  ScanFormats(formats, k + 1, codec, next)

\* the outer loop over preferred_codecs[c..]: selected_format is not reset
\* between two codecs
RECURSIVE ScanCodecs(_, _, _)
ScanCodecs(formats, c, selected) ==
    IF c > Len(preferred_codecs) THEN selected
    ELSE ScanCodecs(formats, c + 1,
                    ScanFormats(formats, 1, preferred_codecs[c], selected))

\* the first of the formats with the lowest bitrate: list.sort is stable
LowestBitrate(audio_formats) ==
    audio_formats[Min({k \in 1..Len(audio_formats) :
        \A j \in 1..Len(audio_formats) :
            Bitrate(audio_formats[k]) <= Bitrate(audio_formats[j])})]

\* the format the two passes select, NoFormat when there is none
SelectedFormat(formats) ==
    LET first_pass == ScanCodecs(formats, 1, NoFormat)
        audio_formats == SelectSeq(formats, IsAudioOnly)
    IN  IF first_pass # NoFormat THEN first_pass
        ELSE IF audio_formats # <<>> THEN LowestBitrate(audio_formats)
        ELSE NoFormat

\* get_preview_stream_url(track_id), for what get_video_info(track_id) gave:
\* fetched is FALSE when it gave None, formats is video_info.get('formats', []).
\* Gives the format selected and the URL returned; an exception is caught and
\* None returned.
GetPreviewStreamUrl(fetched, formats) ==
    IF ~fetched \/ formats = <<>> THEN [selected |-> NoFormat, url |-> NoneVal]
    ELSE IF \E k \in 1..Len(formats) : TestRaises(formats[k])
         THEN [selected |-> NoFormat, url |-> NoneVal]
    ELSE LET selected_format == SelectedFormat(formats)
         IN  [selected |-> selected_format,
              url |-> IF Truthy(selected_format.url) THEN selected_format.url
                      ELSE NoneVal]

---------------------------------------------------------------------------
(* YouTubeAPI.get_channel_info and YouTubeAPI.get_channel_thumbnail        *)

\* a Python int (channel_follower_count): a value that is no str
IntVal(n) == <<"int", n>>

\* Python truthiness of a str, an int, None or a missing key
TruthyVal(v) == v \notin {NoneVal, Absent, <<>>, IntVal(0)}

\* a or b or c or d
OrChain(vals) ==
    LET hits == {k \in 1..Len(vals) : TruthyVal(vals[k])}
    IN  IF hits = {} THEN vals[Len(vals)] ELSE vals[Min(hits)]

\* dict.get(key): None for a missing key
Get(v) == IF v = Absent THEN NoneVal ELSE v

\* info.get('thumbnails', [{}])[0].get('url') if info.get('thumbnails') else None
FirstThumbnailUrl(info) ==
    IF info.thumbnails = <<>> THEN NoneVal ELSE Get(info.thumbnails[1].url)

\* the alternative fields tried for the thumbnail, in order
AlternativeThumbnail(info) ==
    OrChain(<<Get(info.channel_thumbnail), Get(info.channel_follower_count),
              FirstThumbnailUrl(info)>>)

\* get_channel_info(channel_id), for what extract_info gave: the info with its
\* 'thumbnail' filled from the alternative fields when it has none
GetChannelInfo(info) ==
    IF ~TruthyVal(Get(info.thumbnail)) /\ TruthyVal(AlternativeThumbnail(info))
    THEN [info EXCEPT !.thumbnail = AlternativeThumbnail(info)]
    ELSE info

\* get_channel_thumbnail(channel_id): fetched is FALSE when get_channel_info
\* gave None (nothing extracted, or an exception)
GetChannelThumbnail(fetched, info) ==
    IF ~fetched THEN NoneVal
    ELSE LET channel_info == GetChannelInfo(info)
         IN  OrChain(<<Get(channel_info.thumbnail),
                       Get(channel_info.channel_thumbnail),
                       Get(channel_info.channel_follower_count),
                       FirstThumbnailUrl(channel_info)>>)

---------------------------------------------------------------------------
(* ModuleInterface.get_track_info: title and artist                        *)

Unknown == <<"U", "n", "k", "n", "o", "w", "n">>
TopicSuffix == <<" ", "-", " ", "T", "o", "p", "i", "c">>

\* dict.get(key, default)
GetOr(v, default) == IF v = Absent THEN default ELSE v

\* raw_title = video_data.get('title', 'Unknown') or 'Unknown', then cleaned
RawTitle(video_data) ==
    CleanTitle(Or(GetOr(video_data.title, Unknown), Unknown))

\* raw_uploader: video_data.get('uploader', video_data.get('channel',
\* 'Unknown')) or 'Unknown', without a trailing ' - Topic', replaced by
\* kwargs['channel_name'] when it is 'Unknown' or empty and a name was given
RawUploader(video_data, channel_name) ==
    LET named == Or(GetOr(video_data.uploader, GetOr(video_data.channel, Unknown)),
                    Unknown)
        bare == IF Truthy(named) /\ EndsWith(named, TopicSuffix)
                THEN SubSeq(named, 1, Len(named) - 8)
                ELSE named
    IN  IF (bare = Unknown \/ ~Truthy(bare)) /\ Truthy(Get(channel_name))
        THEN channel_name
        ELSE bare

---------------------------------------------------------------------------
(* ModuleInterface.get_track_info: the record read                         *)

\* A record of yt-dlp (a dict) is a record of the fields the module reads,
\* each Absent when the dict does not hold the key.  In the place of a dict:
\* None, a dict without any key, and no entry for the id in data
NoneDict == [none |-> TRUE]
EmptyDict == [empty |-> TRUE]
MissingDict == [missing |-> TRUE]

\* truthiness of video_data: None and {} are falsy, and so is the local while
\* data gave it nothing
DictTruthy(d) == d \notin {NoneDict, EmptyDict, MissingDict}

\* video_data: data[track_id] when data holds the id (cached is MissingDict when
\* it does not), else what api.get_video_info(track_id) returns
VideoData(cached, fetched) ==
    IF DictTruthy(cached) THEN cached ELSE fetched

---------------------------------------------------------------------------
(* ModuleInterface.get_track_info: upload date                             *)

DigitOf ==
    [c \in Digits |->
        CASE c = "0" -> 0 [] c = "1" -> 1 [] c = "2" -> 2 [] c = "3" -> 3
          [] c = "4" -> 4 [] c = "5" -> 5 [] c = "6" -> 6 [] c = "7" -> 7
          [] c = "8" -> 8 [] c = "9" -> 9]

\* the number a str of digits and underscores spells
RECURSIVE Number(_)
Number(ds) ==
    IF ds = <<>> THEN 0
    ELSE LET front == Number(SubSeq(ds, 1, Len(ds) - 1))
             c == ds[Len(ds)]
         IN  IF c = "_" THEN front ELSE 10 * front + DigitOf[c]

\* what int(s) raises for a str that spells no integer
ValueError == <<"ValueError">>

\* int(s) for a str: whitespace around is dropped, a sign may lead, the
\* digits may be grouped by single underscores; IntVal(n) or ValueError
ParseInt(s) ==
    LET t == StripStr(s)
        signed == t # <<>> /\ t[1] \in {"+", "-"}
        body == IF signed THEN Tail(t) ELSE t
        valid ==
            /\ body # <<>>
            /\ IsDigit(body[1])
            /\ IsDigit(body[Len(body)])
            /\ \A k \in 1..Len(body) : IsDigit(body[k]) \/ body[k] = "_"
            /\ \A k \in 1..(Len(body) - 1) : ~(body[k] = "_" /\ body[k + 1] = "_")
    IN  IF ~valid THEN ValueError
        ELSE IF signed /\ t[1] = "-" THEN IntVal(0 - Number(body))
        ELSE IntVal(Number(body))

\* release_year = 2024 until the date is parsed
DefaultYear == 2024

\* upload_date[a:b], 0-based and end-exclusive as a Python slice
Slice(s, a, b) == SubSeq(s, a + 1, IF b < Len(s) THEN b ELSE Len(s))

\* (release_year, release_date) of upload_date = video_data.get('upload_date', '')
ParseUploadDate(upload_date) ==
    LET unparsed == [release_year |-> IntVal(DefaultYear), release_date |-> NoneVal]
    IN  IF Truthy(Get(upload_date)) /\ Len(upload_date) >= 4
        THEN LET year == ParseInt(Slice(upload_date, 0, 4))
             IN  IF year = ValueError THEN unparsed
                 ELSE [release_year |-> year,
                       release_date |->
                           IF Len(upload_date) = 8
                           THEN Slice(upload_date, 0, 4) \o <<"-">>
                                    \o Slice(upload_date, 4, 6) \o <<"-">>
                                    \o Slice(upload_date, 6, 8)
                           ELSE NoneVal]
        ELSE unparsed

---------------------------------------------------------------------------
(* ModuleInterface.get_track_info: cover                                   *)

\* t.get('width', 0): a missing dimension is 0; the number of an IntVal
Dimension(v) == IF v = Absent THEN 0 ELSE v[2]

\* the key of max raises TypeError: None is multiplied
AreaRaises(t) == t.width = NoneVal \/ t.height = NoneVal

\* t.get('width', 0) * t.get('height', 0)
Area(t) == Dimension(t.width) * Dimension(t.height)

\* max(thumbnails, key=...): the first of the entries with the largest key
BestThumb(thumbnails) ==
    thumbnails[Min({k \in 1..Len(thumbnails) :
        \A j \in 1..Len(thumbnails) : Area(thumbnails[j]) <= Area(thumbnails[k])})]

\* a Python list (thumbnails): a value that is no str
ListVal(items) == <<"list", items>>

\* the entries of a list
Items(list) == list[2]

\* the list video_data.get('thumbnails', []) is truthy
HasThumbnails(video_data) ==
    video_data.thumbnails \notin {Absent, NoneVal, ListVal(<<>>)}

\* thumbnail after the selection (cover_url is `thumbnail or ''`)
CoverUrl(video_data) ==
    LET thumbnail == Get(video_data.thumbnail)
        chosen ==
            IF HasThumbnails(video_data)
            THEN GetOr(BestThumb(Items(video_data.thumbnails)).url, thumbnail)
            ELSE thumbnail
    IN  IF Truthy(chosen) THEN chosen ELSE <<>>

---------------------------------------------------------------------------
(* ModuleInterface.get_track_info: codec                                   *)

\* the members of QualityEnum the table names
QualityTiers == {"HIFI", "LOSSLESS", "HIGH", "MEDIUM", "LOW", "MINIMUM"}

\* the table as the comment above it words it: MEDIUM with the low tiers
quality_to_format_as_commented ==
    [tier \in QualityTiers |->
        CASE tier = "HIFI" -> Opus
          [] tier = "LOSSLESS" -> Opus
          [] tier = "HIGH" -> Aac
          [] tier = "MEDIUM" -> Mp3
          [] tier = "LOW" -> Mp3
          [] tier = "MINIMUM" -> Mp3]

quality_to_format ==
    [tier \in QualityTiers |->
        CASE tier = "HIFI" -> Opus
          [] tier = "LOSSLESS" -> Opus
          [] tier = "HIGH" -> Aac
          [] tier = "MEDIUM" -> Aac
          [] tier = "LOW" -> Mp3
          [] tier = "MINIMUM" -> Mp3]

\* selected_format = quality_to_format.get(quality_tier, 'opus')
QualityFormat(quality_tier) ==
    IF quality_tier \in DOMAIN quality_to_format
    THEN quality_to_format[quality_tier]
    ELSE Opus

M4a == <<"m", "4", "a">>

\* the member of CodecEnum for selected_format
CodecOfFormat(format) ==
    IF format = Opus THEN "OPUS"
    ELSE IF format = Aac \/ format = M4a THEN "AAC"
    ELSE IF format = Mp3 THEN "MP3"
    ELSE "OPUS"

---------------------------------------------------------------------------
(* ModuleInterface.get_track_info                                          *)

LowerYouTube == <<"y", "o", "u", "t", "u", "b", "e">>

YouTube == <<"Y", "o", "u", "T", "u", "b", "e">>

WatchUrl ==
    <<"h", "t", "t", "p", "s", ":", "/", "/", "w", "w", "w", ".">> \o YoutubeCom
        \o <<"/", "w", "a", "t", "c", "h", "?", "v", "=">>

FailedToGetVideoInformation ==
    <<"F", "a", "i", "l", "e", "d", " ", "t", "o", " ", "g", "e", "t", " ",
      "v", "i", "d", "e", "o", " ",
      "i", "n", "f", "o", "r", "m", "a", "t", "i", "o", "n">>

\* f"https://www.youtube.com/watch?v={track_id}" if track_id else None
PreviewUrl(track_id) == IF Truthy(track_id) THEN WatchUrl \o track_id ELSE NoneVal

\* description[:500]
DescriptionLimit == 500

\* video_data.get('description', '')[:500] if video_data.get('description') else None
Description(video_data) ==
    IF Truthy(Get(video_data.description))
    THEN Slice(video_data.description, 0, DescriptionLimit)
    ELSE NoneVal

\* the call ends with an exception in place of a TrackInfo
TypeError == [raises |-> "TypeError"]

\* the TrackInfo for no video_data without its error field
ErrorTrackInfoWithoutError(track_id) ==
    [name |-> Unknown,
     album |-> YouTube,
     album_id |-> <<>>,
     artists |-> <<Unknown>>,
     artist_id |-> NoneVal,
     tags |-> [release_date |-> NoneVal, genres |-> NoneVal, description |-> NoneVal],
     codec |-> "OPUS",
     cover_url |-> <<>>,
     release_year |-> IntVal(DefaultYear),
     duration |-> NoneVal,
     error |-> NoneVal,
     id |-> track_id,
     preview_url |-> PreviewUrl(track_id),
     download_extra_kwargs |-> NoneVal]

\* the TrackInfo returned when there is no video_data; the fields the
\* constructor is not given keep the defaults of TrackInfo
ErrorTrackInfo(track_id) ==
    [name |-> Unknown,
     album |-> YouTube,
     album_id |-> <<>>,
     artists |-> <<Unknown>>,
     artist_id |-> NoneVal,
     tags |-> [release_date |-> NoneVal, genres |-> NoneVal, description |-> NoneVal],
     codec |-> "OPUS",
     cover_url |-> <<>>,
     release_year |-> IntVal(DefaultYear),
     duration |-> NoneVal,
     error |-> FailedToGetVideoInformation,
     id |-> track_id,
     preview_url |-> PreviewUrl(track_id),
     download_extra_kwargs |-> NoneVal]

\* get_track_info(track_id, quality_tier, codec_options, data,
\* channel_name=...): cached is data[track_id], MissingDict when data does not hold
\* the id; fetched is what api.get_video_info(track_id) returns.  The
\* TrackInfo returned, or the exception raised.
GetTrackInfo(track_id, quality_tier, cached, fetched, channel_name) ==
    LET video_data == VideoData(cached, fetched)
    IN  IF ~DictTruthy(video_data) THEN ErrorTrackInfo(track_id)
        ELSE IF /\ HasThumbnails(video_data)
                /\ \E k \in 1..Len(Items(video_data.thumbnails)) :
                      AreaRaises(Items(video_data.thumbnails)[k])
             THEN TypeError
        ELSE LET parsed == ParseTitleArtist(RawTitle(video_data),
                                            RawUploader(video_data, channel_name))
                 date == ParseUploadDate(video_data.upload_date)
                 selected_format == QualityFormat(quality_tier)
             IN  [name |-> parsed[2],
                  album |-> YouTube,
                  album_id |-> LowerYouTube,
                  artists |-> <<parsed[1]>>,
                  artist_id |-> GetOr(video_data.channel_id, <<>>),
                  tags |-> [release_date |-> date.release_date,
                            genres |-> <<YouTube>>,
                            description |-> Description(video_data)],
                  codec |-> CodecOfFormat(selected_format),
                  cover_url |-> CoverUrl(video_data),
                  release_year |-> date.release_year,
                  duration |-> Get(video_data.duration),
                  error |-> NoneVal,
                  id |-> track_id,
                  preview_url |-> PreviewUrl(track_id),
                  download_extra_kwargs |->
                      [video_id |-> track_id, selected_format |-> selected_format]]

\* data[track_id] when get_track_info has returned or raised: video_data is
\* only read (.get, max, slices of str), and nothing is stored in data
TrackCachedAfter(track_id, cached, fetched) == cached

---------------------------------------------------------------------------
(* YouTubeAPI.get_playlist_info, ModuleInterface.get_playlist_info and     *)
(* ModuleInterface.get_artist_info                                         *)

\* self.exception(...) is raised
ModuleError == [raises |-> "ModuleError"]

\* truthiness of the value of 'entries': a list that is not empty
ListTruthy(v) == v \notin {Absent, NoneVal, ListVal(<<>>)}

\* YouTubeAPI.get_playlist_info(playlist_id), for what extract_info gave
\* (NoneDict also when it raised): the info, with its 'thumbnail' taken from
\* the first entry when it has none and the entry has one
ApiGetPlaylistInfo(info) ==
    IF DictTruthy(info) /\ ~Truthy(Get(info.thumbnail))
    THEN LET entries == GetOr(info.entries, ListVal(<<>>))
         IN  IF /\ ListTruthy(entries)
                /\ DictTruthy(Items(entries)[1])
                /\ Truthy(Get(Items(entries)[1].thumbnail))
             THEN [info EXCEPT !.thumbnail = Items(entries)[1].thumbnail]
             ELSE info
    ELSE info

\* entry and entry.get('id')
HasId(entry) == DictTruthy(entry) /\ Truthy(Get(entry.id))

\* track_ids = [entry['id'] for entry in entries if entry and entry.get('id')]
TrackIds(entries) ==
    LET kept == SelectSeq(entries, HasId)
    IN  [k \in 1..Len(kept) |-> kept[k].id]

\* track_data = {entry['id']: entry for entry in entries if ...}: of two
\* entries with the same id the later one stays
TrackData(entries) ==
    LET kept == SelectSeq(entries, HasId)
        last(id) == CHOOSE k \in 1..Len(kept) :
                        /\ kept[k].id = id
                        /\ \A j \in (k + 1)..Len(kept) : kept[j].id # id
    IN  [id \in {kept[k].id : k \in 1..Len(kept)} |-> kept[last(id)]]

UnknownPlaylist ==
    <<"U", "n", "k", "n", "o", "w", "n", " ", "P", "l", "a", "y", "l", "i", "s", "t">>

\* playlist_id.startswith('UC'): a channel id, whose uploads playlist is asked
\* for first
IsChannelId(playlist_id) == StartsWithAt(playlist_id, <<"U", "C">>, 1)

\* playlist_data with the cached record used whether it has entries or not
PlaylistDataAnyCached(playlist_id, cached, fetched_uploads, fetched) ==
    LET from_uploads ==
            IF ~DictTruthy(cached) /\ IsChannelId(playlist_id)
            THEN ApiGetPlaylistInfo(fetched_uploads)
            ELSE cached
    IN  IF DictTruthy(from_uploads) THEN from_uploads
        ELSE ApiGetPlaylistInfo(fetched)

\* playlist_data of get_playlist_info: the cached record when it has entries,
\* else the uploads playlist of a channel id, else the playlist of the id
PlaylistData(playlist_id, cached, fetched_uploads, fetched) ==
    LET from_cache ==
            IF DictTruthy(cached) /\ ListTruthy(cached.entries) THEN cached
            ELSE NoneDict
        from_uploads ==
            IF ~DictTruthy(from_cache) /\ IsChannelId(playlist_id)
            THEN ApiGetPlaylistInfo(fetched_uploads)
            ELSE from_cache
    IN  IF DictTruthy(from_uploads) THEN from_uploads
        ELSE ApiGetPlaylistInfo(fetched)

\* get_playlist_info(playlist_id, data): cached is data[playlist_id],
\* MissingDict when data does not hold the id; fetched_uploads and fetched are
\* what extract_info gives for the uploads playlist of the id and for the id.
\* The PlaylistInfo returned, or the exception raised.
GetPlaylistInfo(playlist_id, cached, fetched_uploads, fetched) ==
    LET playlist_data == PlaylistData(playlist_id, cached, fetched_uploads, fetched)
    IN  IF ~DictTruthy(playlist_data) THEN ModuleError
        ELSE IF playlist_data.entries = NoneVal THEN TypeError
        ELSE LET entries == Items(GetOr(playlist_data.entries, ListVal(<<>>)))
             IN  [name |-> GetOr(playlist_data.title, UnknownPlaylist),
                  creator |-> GetOr(playlist_data.uploader,
                                    GetOr(playlist_data.channel, Unknown)),
                  creator_id |-> GetOr(playlist_data.channel_id, <<>>),
                  tracks |-> TrackIds(entries),
                  release_year |-> IntVal(DefaultYear),
                  cover_url |-> GetOr(playlist_data.thumbnail, <<>>),
                  description |-> GetOr(playlist_data.description, <<>>),
                  track_extra_kwargs |-> [data |-> TrackData(entries)]]

\* channel_data of get_artist_info: the cached record when it has an
\* 'entries' key, else what api.get_channel_info(artist_id) returns when that
\* is something, else the cached record again
ChannelData(cached, fetched) ==
    IF ~DictTruthy(cached) \/ cached.entries = Absent
    THEN IF DictTruthy(fetched) THEN fetched
         ELSE cached
    ELSE cached

\* get_artist_info(artist_id, data=data): cached is data[artist_id],
\* MissingDict when data does not hold the id; fetched is what
\* api.get_channel_info(artist_id) returns, whose filled 'thumbnail' is not
\* read here.  The ArtistInfo returned, or the exception raised.
GetArtistInfo(artist_id, cached, fetched) ==
    LET channel_data == ChannelData(cached, fetched)
    IN  IF ~DictTruthy(channel_data) THEN ModuleError
        ELSE IF channel_data.entries = NoneVal THEN TypeError
        ELSE LET entries == Items(GetOr(channel_data.entries, ListVal(<<>>)))
                 channel_name == GetOr(channel_data.title,
                                       GetOr(channel_data.uploader, Unknown))
             IN  [name |-> channel_name,
                  artist_id |-> artist_id,
                  albums |-> <<>>,
                  tracks |-> TrackIds(entries),
                  track_extra_kwargs |-> [data |-> TrackData(entries),
                                          channel_name |-> channel_name]]

\* data[playlist_id] after a get_playlist_info that fills the 'thumbnail' of
\* the record it uses, as api.get_playlist_info does with the one it fetched
PlaylistCachedAfterFill(playlist_id, cached, fetched_uploads, fetched) ==
    IF DictTruthy(cached) /\ ListTruthy(cached.entries)
    THEN ApiGetPlaylistInfo(cached) ELSE cached

\* data[playlist_id] when get_playlist_info has returned or raised: the
\* 'thumbnail' is stored in the record extract_info gave, never in the cached
\* one, which is only read
PlaylistCachedAfter(playlist_id, cached, fetched_uploads, fetched) == cached

\* data[artist_id] when get_artist_info has returned or raised: channel_data
\* is only read
ArtistCachedAfter(artist_id, cached, fetched) == cached

\* uploads_id = 'UU' + playlist_id[2:]
UploadsId(playlist_id) == <<"U", "U">> \o SubSeq(playlist_id, 3, Len(playlist_id))

\* the ids asked of api.get_playlist_info when the uploads playlist and the
\* playlist of a channel id are both asked for, whatever the first one gave
PlaylistFetchesBoth(playlist_id, cached, fetched_uploads, fetched) ==
    IF DictTruthy(cached) /\ ListTruthy(cached.entries) THEN <<>>
    ELSE IF IsChannelId(playlist_id) THEN <<UploadsId(playlist_id), playlist_id>>
    ELSE <<playlist_id>>

\* the ids get_playlist_info asks of api.get_playlist_info, in the order of
\* the calls: none when the cached record has entries; for a channel id the
\* uploads playlist and, when that gave nothing, the id itself; else the id
PlaylistFetches(playlist_id, cached, fetched_uploads, fetched) ==
    IF DictTruthy(cached) /\ ListTruthy(cached.entries) THEN <<>>
    ELSE IF IsChannelId(playlist_id)
         THEN IF DictTruthy(ApiGetPlaylistInfo(fetched_uploads))
              THEN <<UploadsId(playlist_id)>>
              ELSE <<UploadsId(playlist_id), playlist_id>>
    ELSE <<playlist_id>>

---------------------------------------------------------------------------
(* YouTubeAPI.download_audio and ModuleInterface.get_track_download        *)

Webm == <<"w", "e", "b", "m">>
Ogg == <<"o", "g", "g">>

\* the codecs tried by the format string, in order, before bestaudio/best
FormatOrder(preferred_codec) ==
    IF preferred_codec = Opus THEN <<Opus, Aac, Mp3>>
    ELSE IF preferred_codec = Mp3 THEN <<Mp3, Opus, Aac>>
    ELSE IF preferred_codec = M4a \/ preferred_codec = Aac THEN <<Aac, Opus, Mp3>>
    ELSE <<Opus, Aac, Mp3>>

\* 'preferredcodec' of the FFmpegExtractAudio postprocessor
PostprocessorCodec(preferred_codec) ==
    IF preferred_codec \in {Mp3, Opus, M4a, Aac} THEN preferred_codec ELSE Opus

\* for ext in ['opus', 'mp3', 'm4a', 'webm', 'ogg']
ScannedExtensions == <<Opus, Mp3, M4a, Webm, Ogg>>

\* download_audio(video_id, output_path, preferred_codec): the extension of
\* the path returned, NoneVal for None.  raised: ydl.download raised; files:
\* the extensions of the files output_path.<ext> that exist after it.
DownloadAudio(preferred_codec, raised, files) ==
    LET found == {k \in 1..Len(ScannedExtensions) : ScannedExtensions[k] \in files}
    IN  IF raised \/ found = {} THEN NoneVal
        ELSE ScannedExtensions[Min(found)]

\* codec_map.get(ext, CodecEnum.OPUS), ext without its dot
CodecOfExtension(ext) ==
    IF ext = Opus THEN "OPUS"
    ELSE IF ext = Mp3 THEN "MP3"
    ELSE IF ext = M4a THEN "AAC"
    ELSE IF ext = Aac THEN "AAC"
    ELSE IF ext = Webm THEN "OPUS"
    ELSE IF ext = Ogg THEN "VORBIS"
    ELSE "OPUS"

\* get_track_download with preferred_codec 'opus' whatever was selected
GetTrackDownloadOpusOnly(kwargs, raised, files) ==
    LET video_id == IF Truthy(Get(kwargs.video_id)) THEN kwargs.video_id
                    ELSE Get(kwargs.track_id)
        temp_path == DownloadAudio(Opus, raised, files)
    IN  IF ~Truthy(video_id)
        THEN [preferred_codec |-> NoneVal, postprocessor |-> NoneVal, result |-> ModuleError]
        ELSE [preferred_codec |-> Opus,
              postprocessor |-> PostprocessorCodec(Opus),
              result |-> IF temp_path = NoneVal THEN ModuleError
                         ELSE [temp_file_path |-> temp_path,
                               different_codec |-> CodecOfExtension(temp_path)]]

\* get_track_download(**kwargs), kwargs being the download_extra_kwargs of
\* the TrackInfo (video_id, video_data, selected_format) or a track_id:
\* the preferred_codec and the postprocessor codec given to yt-dlp, and the
\* TrackDownloadInfo returned (its path stands for its extension) or the
\* exception raised
GetTrackDownload(kwargs, raised, files) ==
    LET video_id == IF Truthy(Get(kwargs.video_id)) THEN kwargs.video_id
                    ELSE Get(kwargs.track_id)
        selected_format == GetOr(kwargs.selected_format, Opus)
        temp_path == DownloadAudio(selected_format, raised, files)
    IN  IF ~Truthy(video_id)
        THEN [preferred_codec |-> NoneVal, postprocessor |-> NoneVal, result |-> ModuleError]
        ELSE [preferred_codec |-> selected_format,
              postprocessor |-> PostprocessorCodec(selected_format),
              result |-> IF temp_path = NoneVal THEN ModuleError
                         ELSE [temp_file_path |-> temp_path,
                               different_codec |-> CodecOfExtension(temp_path)]]

---------------------------------------------------------------------------
(* YouTubeAPI._get_base_opts.YtDlpLogger.warning                           *)

\* "No supported JavaScript runtime"
NoJavaScriptRuntime ==
    <<"N", "o", " ", "s", "u", "p", "p", "o", "r", "t", "e", "d", " ", "J",
      "a", "v", "a", "S", "c", "r", "i", "p", "t", " ", "r", "u", "n", "t",
      "i", "m", "e">>

\* "web client https formats have been skipped"
FormatsSkipped ==
    <<"w", "e", "b", " ", "c", "l", "i", "e", "n", "t", " ", "h", "t", "t",
      "p", "s", " ", "f", "o", "r", "m", "a", "t", "s", " ", "h", "a", "v",
      "e", " ", "b", "e", "e", "n", " ", "s", "k", "i", "p", "p", "e", "d">>

\* "The provided YouTube account cookies are no longer valid"
CookiesNoLongerValid ==
    <<"T", "h", "e", " ", "p", "r", "o", "v", "i", "d", "e", "d", " ", "Y",
      "o", "u", "T", "u", "b", "e", " ", "a", "c", "c", "o", "u", "n", "t",
      " ", "c", "o", "o", "k", "i", "e", "s", " ", "a", "r", "e", " ", "n",
      "o", " ", "l", "o", "n", "g", "e", "r", " ", "v", "a", "l", "i", "d">>

\* the warning is one of the two that are never shown
IsNoisy(msg) == Contains(msg, NoJavaScriptRuntime) \/ Contains(msg, FormatsSkipped)

\* the warning is the one of the expired cookies
IsCookieWarning(msg) == Contains(msg, CookiesNoLongerValid)

Max(S) == CHOOSE x \in S : \A y \in S : y <= x

\* clean_msg: group 1 of re.match(r'^\[.*?\]\s+.*?:?\s+(.*)$', msg) for a
\* msg of one line, msg itself without a match.  r is the index of the ']'
\* that ends \[.*?\] (the first that admits a match), a the end of the first
\* \s+ (the longest that admits a match), b the end of the lazy .*? (the
\* shortest), c is 1 when :? takes a colon; the group starts where the
\* second \s+ stops.
CleanMsg(msg) ==
    LET n == Len(msg)
        colon(b) == IF b + 1 <= n /\ msg[b + 1] = ":" /\ b + 2 <= n /\ IsSpace(msg[b + 2])
                    THEN 1 ELSE 0
        ends(a) == {b \in a..n : b + colon(b) + 1 <= n /\ IsSpace(msg[b + colon(b) + 1])}
        runs(r) == {a \in (r + 1)..n :
                        (\A j \in (r + 1)..a : IsSpace(msg[j])) /\ ends(a) # {}}
        closes == IF n >= 2 /\ msg[1] = "["
                  THEN {r \in 2..n : msg[r] = "]" /\ runs(r) # {}} ELSE {}
    IN  IF closes = {} THEN msg
        ELSE LET r == Min(closes)
                 a == Max(runs(r))
                 b == Min(ends(a))
             IN  SubSeq(msg, SkipSpace(msg, b + colon(b) + 1), n)

---------------------------------------------------------------------------
(* YouTubeAPI._managed_options                                             *)

\* self.cookies_path, the configured cookies file
CookiesPath == "youtube-cookies.txt"

\* no path: temp_cookie_path = None, and opts without 'cookiefile'
NoPath == "None"

\* the paths tempfile.mkstemp(suffix='.txt', prefix='yt_cookies_') can give
TempPaths == {"yt_cookies_1.txt", "yt_cookies_2.txt", "yt_cookies_3.txt", "yt_cookies_4.txt"}

\* the temporary files that exist are pairs <<path, o>>, o the operation
\* that created the file; mkstemp creates a file that did not exist: the
\* paths it can return
FreshPaths(files) == TempPaths \ {f[1] : f \in files}

\* opts['cookiefile'] of an operation that copied the cookies
CookieFile(cookies_path, temp_cookie_path) == temp_cookie_path

\* a finally clause that is left out when the body raised
RemovesOnlyAfterReturn(raised) == ~raised

\* the finally clause runs when the body of the with returned and when it
\* raised
RunsFinally(raised) == TRUE

---------------------------------------------------------------------------
(* Calls of _clean_title                                                   *)

\* the pieces the titles of the model are made of: two tags of the
\* vocabulary (one in another case than the vocabulary's), an opening and a
\* closing bracket, a separator, whitespace, the hashtag sign
TitleTokens ==
    {<<"H", "D">>, <<"h", "q">>, <<"(">>, <<")">>, <<"-">>, <<" ">>, <<"#">>}

MaxTitleTokens == 5

\* titles of the documentation and comments of the source
ExampleTitles ==
    {<<"A", "r", "t", "i", "s", "t", " ", "-", " ", "S", "o", "n", "g", " ", "(", "O", "f", "f", "i", "c", "i", "a", "l", " ", "M", "u", "s", "i", "c", " ", "V", "i", "d", "e", "o", ")">>,
     <<"A", "n", "n", "e", "-", "M", "a", "r", "i", "e", " ", EnDash, " ", "A", "l", "a", "r", "m", " ", "[", "R", "e", "m", "a", "s", "t", "e", "r", "e", "d", " ", "2", "0", "1", "8", "]", " ", "#", "p", "o", "p">>,
     NoneVal}

StripInputs ==
    {Join(ts) : ts \in SeqsUpTo(TitleTokens, MaxTitleTokens)} \cup ExampleTitles

InitStrip ==
    /\ op = "strip"
    /\ pc = "call"
    /\ arg \in {[title |-> t] : t \in StripInputs}
    /\ ret = NoneVal

\* _clean_title(title) runs and returns
CleanTitleCall ==
    /\ op = "strip"
    /\ pc = "call"
    /\ ret' = CleanTitle(arg.title)
    /\ pc' = "done"
    /\ UNCHANGED <<op, arg>>

SpecStrip == InitStrip /\ [][CleanTitleCall]_vars

---------------------------------------------------------------------------
(* Calls of _parse_title_artist                                            *)

\* the characters the titles of the model are made of: a lower-case and an
\* upper-case letter, whitespace and the three separators
SplitChars == {"a", "B", " ", "-", ":", EnDash}

MaxSplitLen == 5

\* the uploaders of the model: empty, inside a title, around a title's artist
\* in another case, and unrelated
SplitUploaders == {<<>>, <<"a">>, <<"A", "b">>, <<"b", "a", "-">>, <<"c">>}

ReviewSomeProduct ==
    <<"R", "e", "v", "i", "e", "w", " ", "-", " ", "S", "o", "m", "e", " ", "P", "r", "o", "d", "u", "c", "t">>

TechReviewer ==
    <<"T", "e", "c", "h", "R", "e", "v", "i", "e", "w", "e", "r">>

AnneMarieAlarm ==
    <<"A", "n", "n", "e", "-", "M", "a", "r", "i", "e", " ", "-", " ", "A", "l", "a", "r", "m">>

AnneMarie ==
    <<"A", "n", "n", "e", "-", "M", "a", "r", "i", "e">>

\* the calls named in the comments of the source
ExampleSplits ==
    {[title |-> ReviewSomeProduct, uploader |-> TechReviewer],
     [title |-> AnneMarieAlarm, uploader |-> AnneMarie]}

SplitInputs ==
    [title : SeqsUpTo(SplitChars, MaxSplitLen), uploader : SplitUploaders]
        \cup ExampleSplits

InitSplit ==
    /\ op = "split"
    /\ pc = "call"
    /\ arg \in SplitInputs
    /\ ret = NoneVal

\* _parse_title_artist(title, uploader) runs and returns
ParseTitleArtistCall ==
    /\ op = "split"
    /\ pc = "call"
    /\ ret' = ParseTitleArtist(arg.title, arg.uploader)
    /\ pc' = "done"
    /\ UNCHANGED <<op, arg>>

SpecSplit == InitSplit /\ [][ParseTitleArtistCall]_vars

---------------------------------------------------------------------------
(* Calls of custom_url_parse                                               *)

\* how the links of the model start
LinkSchemes == {<<>>, <<"h", "t", "t", "p", "s", ":", "/", "/">>}

\* the shapes of the links of the model: the heads of all the patterns, a
\* watch link whose v is not the first parameter, a shorts link, the bare host
LinkShapes ==
    UNION {video_patterns[k] : k \in 1..Len(video_patterns)}
        \cup playlist_pattern
        \cup UNION {channel_patterns[k] : k \in 1..Len(channel_patterns)}
        \cup {YoutubeCom \o <<"/", "w", "a", "t", "c", "h", "?", "t", "=", "1", "&", "v", "=">>,
              YoutubeCom \o <<"/", "s", "h", "o", "r", "t", "s", "/">>,
              YoutubeCom \o <<"/">>}

\* the characters the ids of the model are cut from
IdSource ==
    <<"d", "Q", "w", "4", "w", "9", "W", "g", "X", "c", "Q", "-", "_", "0", "z", "Z">>

MaxIdLen == 12

PL123 == <<"P", "L", "1", "2", "3">>

\* the ids of the model: of every length up to MaxIdLen, and broken by a
\* character that belongs to no id
LinkIds ==
    {SubSeq(IdSource, 1, n) : n \in 0..MaxIdLen}
        \cup {PL123,
              <<"s", "o", "m", "e", "c", "h", "a", "n", "n", "e", "l">>,
              <<"d", "Q", "w", "4", "w", ".", "W", "g", "X", "c", "Q">>}

\* what follows the id
LinkTails ==
    {<<>>,
     <<"&">> \o ListEquals \o PL123,
     <<"?">> \o ListEquals \o PL123,
     <<"&">> \o ListEquals,
     <<"&", "p", "l", "a", "y">> \o ListEquals \o PL123,
     <<"&", "t", "=", "4", "2">>,
     <<"/", "v", "i", "d", "e", "o", "s">>}

WatchWithList ==
    <<"h", "t", "t", "p", "s", ":", "/", "/">> \o YoutubeCom
        \o <<"/", "w", "a", "t", "c", "h", "?", "v", "=">>
        \o <<"d", "Q", "w", "4", "w", "9", "W", "g", "X", "c", "Q">>
        \o <<"&">> \o ListEquals \o PL123

ClassifyInputs ==
    {[link |-> s \o h \o i \o t] :
        s \in LinkSchemes, h \in LinkShapes, i \in LinkIds, t \in LinkTails}

InitClassify ==
    /\ op = "classify"
    /\ pc = "call"
    /\ arg \in ClassifyInputs
    /\ ret = NoneVal

\* custom_url_parse(link) runs and returns; parsed is what parse_youtube_url
\* gave it
CustomUrlParseCall ==
    /\ op = "classify"
    /\ pc = "call"
    /\ ret' = [parsed |-> ParseYoutubeUrl(arg.link), media |-> CustomUrlParse(arg.link)]
    /\ pc' = "done"
    /\ UNCHANGED <<op, arg>>

SpecClassify == InitClassify /\ [][CustomUrlParseCall]_vars

---------------------------------------------------------------------------
(* Calls of get_preview_stream_url                                         *)

Fmt(acodec, vcodec, abr, tbr, url) ==
    [acodec |-> acodec, vcodec |-> vcodec, abr |-> abr, tbr |-> tbr, url |-> url]

\* the formats of the model: two of each preferred codec and of a codec that
\* is not preferred, with the bitrate in abr, in tbr or unknown; a format with
\* video, a video-only format, a storyboard, formats whose acodec is missing
\* or None, a format without url
FormatPool ==
    {Fmt(Opus, NoneCodec, 96, 0, <<"u", "1">>),
     Fmt(Opus, NoneCodec, 48, 50, <<"u", "2">>),
     Fmt(Aac, NoneCodec, 64, 0, <<"u", "3">>),
     Fmt(Aac, NoneCodec, 0, 128, <<"u", "4">>),
     Fmt(Mp3, NoneCodec, 128, 0, <<"u", "5">>),
     Fmt(Mp3, NoneCodec, 32, 0, NoneVal),
     Fmt(<<"v", "o", "r", "b", "i", "s">>, NoneCodec, 40, 0, <<"u", "7">>),
     Fmt(<<"v", "o", "r", "b", "i", "s">>, NoneCodec, 0, 0, <<"u", "8">>),
     Fmt(<<"m", "p", "4", "a", ".", "4", "0", ".", "2">>, <<"a", "v", "c", "1">>, 16, 0, <<"u", "9">>),
     Fmt(NoneCodec, <<"a", "v", "c", "1">>, 0, 900, <<"u", "a">>),
     Fmt(NoneCodec, NoneCodec, 0, 0, <<"u", "b">>),
     Fmt(Absent, NoneCodec, 8, 0, <<"u", "c">>),
     Fmt(NoneVal, NoneCodec, 24, 0, <<"u", "d">>)}

MaxFormats == 3

FormatInputs ==
    [fetched : {TRUE}, formats : SeqsUpTo(FormatPool, MaxFormats)]
        \cup {[fetched |-> FALSE, formats |-> <<>>]}

InitFormat ==
    /\ op = "select_format"
    /\ pc = "call"
    /\ arg \in FormatInputs
    /\ ret = NoneVal

\* get_preview_stream_url(track_id) runs and returns
GetPreviewStreamUrlCall ==
    /\ op = "select_format"
    /\ pc = "call"
    /\ ret' = GetPreviewStreamUrl(arg.fetched, arg.formats)
    /\ pc' = "done"
    /\ UNCHANGED <<op, arg>>

SpecFormat == InitFormat /\ [][GetPreviewStreamUrlCall]_vars

---------------------------------------------------------------------------
(* Calls of get_channel_thumbnail                                          *)

\* image URLs: a full-size banner (size token =s0, at the end and before a
\* crop suffix), an avatar (size token =s88) and one without a size token
BannerUrl == <<"b", "=", "s", "0">>
BannerCropUrl == <<"b", "=", "s", "0", "-", "c">>
AvatarUrl == <<"a", "=", "s", "8", "8", "-", "c">>
PlainUrl == <<"p", ".", "j", "p", "g">>

MaxThumbnails == 2

\* what extract_info gives for the channel
ChannelInfos ==
    [thumbnail : {Absent, NoneVal, <<>>, BannerUrl, AvatarUrl},
     channel_thumbnail : {Absent, BannerCropUrl, AvatarUrl},
     channel_follower_count : {Absent, IntVal(0), IntVal(1200)},
     thumbnails : SeqsUpTo([url : {Absent, BannerUrl, AvatarUrl, PlainUrl}], MaxThumbnails)]

NoChannelInfo ==
    [thumbnail |-> Absent, channel_thumbnail |-> Absent,
     channel_follower_count |-> Absent, thumbnails |-> <<>>]

ThumbInputs ==
    [fetched : {TRUE}, info : ChannelInfos]
        \cup {[fetched |-> FALSE, info |-> NoChannelInfo]}

InitThumb ==
    /\ op = "channel_thumbnail"
    /\ pc = "call"
    /\ arg \in ThumbInputs
    /\ ret = NoneVal

\* get_channel_thumbnail(channel_id) runs and returns
GetChannelThumbnailCall ==
    /\ op = "channel_thumbnail"
    /\ pc = "call"
    /\ ret' = GetChannelThumbnail(arg.fetched, arg.info)
    /\ pc' = "done"
    /\ UNCHANGED <<op, arg>>

SpecThumb == InitThumb /\ [][GetChannelThumbnailCall]_vars

---------------------------------------------------------------------------
(* Calls of get_track_info                                                 *)

\* the raw titles of the model: missing, None, empty, plain, an artist and a
\* song, with a tag, nothing but a tag, nothing but a hashtag
RawTitles ==
    {Absent, NoneVal, <<>>,
     <<"S">>,
     <<"A", " ", "-", " ", "S">>,
     <<"A", " ", "-", " ", "S", " ", "(", "H", "D", ")">>,
     <<"(", "H", "D", ")">>,
     <<"#", "s">>}

\* the uploaders of the model: missing, None, empty, the artist of a title,
\* the same on an auto-generated channel, the suffix alone, 'Unknown'
RawUploaders ==
    {Absent, NoneVal, <<>>,
     <<"a">>,
     <<"A">> \o TopicSuffix,
     TopicSuffix,
     Unknown,
     Unknown \o TopicSuffix}

RawChannels == {Absent, NoneVal, <<"C", "h">>}

ChannelNames == {Absent, <<>>, <<"F", "b">>}

\* a video id
V1 == <<"v", "1">>

\* a record of yt-dlp with every field the module reads, no thumbnails list
BaseVideoData ==
    [title |-> <<"S">>,
     uploader |-> <<"a">>,
     channel |-> <<"C", "h">>,
     channel_id |-> <<"U", "C", "1">>,
     duration |-> IntVal(3),
     upload_date |-> <<"2", "0", "2", "3", "0", "1", "3", "1">>,
     thumbnail |-> <<"t">>,
     thumbnails |-> Absent,
     description |-> <<"d">>]

\* a record that holds none of the fields the module reads
BareVideoData ==
    [title |-> Absent, uploader |-> Absent, channel |-> Absent,
     channel_id |-> Absent, duration |-> Absent, upload_date |-> Absent,
     thumbnail |-> Absent, thumbnails |-> Absent, description |-> Absent]

\* the call get_track_info(track_id, quality_tier, None, data, channel_name=...)
TrackCall(track_id, quality_tier, cached, fetched, channel_name) ==
    [track_id |-> track_id, quality_tier |-> quality_tier, cached |-> cached,
     fetched |-> fetched, channel_name |-> channel_name]

\* calls that differ in the title, the uploader, the channel and the channel
\* name passed along
NormalizeInputs ==
    {TrackCall(V1, "HIFI", MissingDict,
               [BaseVideoData EXCEPT !.title = t, !.uploader = u, !.channel = c], n) :
        t \in RawTitles, u \in RawUploaders, c \in RawChannels, n \in ChannelNames}

InitNormalize ==
    /\ op = "normalize"
    /\ pc = "call"
    /\ arg \in NormalizeInputs
    /\ ret = NoneVal

\* get_track_info runs on the record and returns
GetTrackInfoCall ==
    /\ op = "normalize"
    /\ pc = "call"
    /\ ret' = GetTrackInfo(arg.track_id, arg.quality_tier, arg.cached, arg.fetched,
                           arg.channel_name)
    /\ arg' = [arg EXCEPT !.cached = TrackCachedAfter(arg.track_id, arg.cached, arg.fetched)]
    /\ pc' = "done"
    /\ UNCHANGED op

SpecNormalize == InitNormalize /\ [][GetTrackInfoCall]_vars

\* quality tiers: the members of the table, a member outside it and None
TierInputs == QualityTiers \cup {"ATMOS", "None"}

\* calls that differ in the quality tier, the id, and in where the record
\* comes from: data holds it, holds None or {} under the id, or does not hold
\* the id; the fetch returns a record, {} or None
CodecInputs ==
    {TrackCall(i, q, c, f, Absent) :
        i \in {<<>>, V1},
        q \in TierInputs,
        c \in {MissingDict, NoneDict, EmptyDict, BaseVideoData},
        f \in {NoneDict, EmptyDict, BaseVideoData, BareVideoData}}

InitCodec ==
    /\ op = "normalize"
    /\ pc = "call"
    /\ arg \in CodecInputs
    /\ ret = NoneVal

SpecCodec == InitCodec /\ [][GetTrackInfoCall]_vars

\* the pieces the upload dates of the model are made of: a year, digits by two
\* and by one, a letter, and the characters int() accepts around and inside
\* digits
DateTokens ==
    {<<"2", "0", "2", "3">>, <<"0", "1">>, <<"1">>, <<"a">>, <<" ">>, <<"_">>,
     <<"+">>, <<"-">>}

MaxDateTokens == 4

\* the values of 'upload_date': no key, None, a str
UploadDates ==
    {Absent, NoneVal} \cup {Join(ts) : ts \in SeqsUpTo(DateTokens, MaxDateTokens)}

\* calls that differ in the upload date
DateInputs ==
    {TrackCall(V1, "HIFI", MissingDict, [BaseVideoData EXCEPT !.upload_date = d], Absent) :
        d \in UploadDates}

InitDate ==
    /\ op = "normalize"
    /\ pc = "call"
    /\ arg \in DateInputs
    /\ ret = NoneVal

SpecDate == InitDate /\ [][GetTrackInfoCall]_vars

\* an entry of 'thumbnails' with every field it is read for
BaseThumb == [url |-> <<"u">>, width |-> IntVal(2), height |-> IntVal(1)]

\* entries of which each field is missing, None or there
SparseThumbs ==
    [url : {Absent, NoneVal, BaseThumb.url},
     width : {Absent, NoneVal, BaseThumb.width},
     height : {Absent, NoneVal, BaseThumb.height}]

\* records of which each field is missing or None, and the full record
SparseVideoData ==
    {BaseVideoData}
        \cup [title : {Absent, NoneVal}, uploader : {Absent, NoneVal},
              channel : {Absent, NoneVal}, channel_id : {Absent, NoneVal},
              duration : {Absent, NoneVal}, upload_date : {Absent, NoneVal},
              thumbnail : {Absent, NoneVal}, thumbnails : {Absent},
              description : {Absent, NoneVal}]

\* calls with a record that misses fields or holds None for them, also inside
\* the one entry of its thumbnails
MissingInputs ==
    {TrackCall(V1, "HIFI", MissingDict, [d EXCEPT !.thumbnails = t], Absent) :
        d \in SparseVideoData,
        t \in {Absent, NoneVal, ListVal(<<>>)} \cup {ListVal(<<e>>) : e \in SparseThumbs}}

InitMissing ==
    /\ op = "normalize"
    /\ pc = "call"
    /\ arg \in MissingInputs
    /\ ret = NoneVal

SpecMissing == InitMissing /\ [][GetTrackInfoCall]_vars

\* entries of 'thumbnails' for the selection of the cover
CoverThumbs ==
    [url : {Absent, NoneVal, <<"a">>, <<"b">>},
     width : {Absent, NoneVal, IntVal(1), IntVal(2)},
     height : {Absent, IntVal(1)}]

\* the longest list of thumbnails drawn
MaxCovers == 2

\* calls that differ in 'thumbnail' and in the list 'thumbnails'
CoverInputs ==
    {TrackCall(V1, "HIFI", MissingDict,
               [BaseVideoData EXCEPT !.thumbnail = t, !.thumbnails = ts], Absent) :
        t \in {Absent, NoneVal, BaseVideoData.thumbnail},
        ts \in {Absent} \cup {ListVal(s) : s \in SeqsUpTo(CoverThumbs, MaxCovers)}}

InitCover ==
    /\ op = "normalize"
    /\ pc = "call"
    /\ arg \in CoverInputs
    /\ ret = NoneVal

SpecCover == InitCover /\ [][GetTrackInfoCall]_vars

---------------------------------------------------------------------------
(* Calls of get_playlist_info and get_artist_info                          *)

V2 == <<"v", "2">>

\* the entries of a playlist or a channel: None, {}, and entries without id,
\* with a None or an empty id and with an id, one of them with a thumbnail
EntryPool ==
    {NoneDict, EmptyDict, [id |-> V1, thumbnail |-> <<"e">>]}
        \cup [id : {Absent, NoneVal, <<>>, V1, V2}, thumbnail : {Absent}]

MaxEntries == 2

\* the values of 'entries': no key, None, a list
EntriesValues ==
    {Absent, NoneVal} \cup {ListVal(es) : es \in SeqsUpTo(EntryPool, MaxEntries)}

BasePlaylist ==
    [title |-> <<"P">>, uploader |-> <<"a">>, channel |-> <<"C", "h">>,
     channel_id |-> <<"U", "C", "1">>, thumbnail |-> <<"t">>,
     description |-> <<"d">>,
     entries |-> ListVal(<<[id |-> V1, thumbnail |-> Absent]>>)]

PlaylistRecords ==
    {[BasePlaylist EXCEPT !.thumbnail = c, !.entries = es] :
        c \in {Absent, <<"t">>}, es \in EntriesValues}
        \cup {[BasePlaylist EXCEPT !.title = t, !.uploader = u, !.channel = u] :
                 t \in {Absent, NoneVal}, u \in {Absent, NoneVal}}

\* the call get_playlist_info(playlist_id, data); fetches is the list of the
\* ids asked of api.get_playlist_info during the call
PlaylistCall(playlist_id, cached, fetched_uploads, fetched) ==
    [playlist_id |-> playlist_id, cached |-> cached,
     fetched_uploads |-> fetched_uploads, fetched |-> fetched, fetches |-> <<>>]

\* calls with a playlist id and a channel id: data holds a record, and data
\* holds none and the record is fetched, or nothing is
PlaylistInputs ==
    {PlaylistCall(i, c, NoneDict, f) :
        i \in {<<"P", "L", "1">>, <<"U", "C", "1">>},
        c \in PlaylistRecords,
        f \in {NoneDict, BasePlaylist}}
    \cup
    {PlaylistCall(i, c, u, f) :
        i \in {<<"P", "L", "1">>, <<"U", "C", "1">>},
        c \in {MissingDict, NoneDict, EmptyDict},
        u \in {NoneDict, EmptyDict, [BasePlaylist EXCEPT !.title = <<"U", "p">>]},
        f \in PlaylistRecords \cup {NoneDict, EmptyDict}}

InitPlaylist ==
    /\ op = "playlist"
    /\ pc = "call"
    /\ arg \in PlaylistInputs
    /\ ret = NoneVal

\* get_playlist_info runs and returns or raises
GetPlaylistInfoCall ==
    /\ op = "playlist"
    /\ pc = "call"
    /\ ret' = GetPlaylistInfo(arg.playlist_id, arg.cached, arg.fetched_uploads,
                              arg.fetched)
    /\ arg' = [arg EXCEPT !.cached = PlaylistCachedAfter(arg.playlist_id, arg.cached,
                                                        arg.fetched_uploads, arg.fetched),
                          !.fetches = PlaylistFetches(arg.playlist_id, arg.cached,
                                                      arg.fetched_uploads, arg.fetched)]
    /\ pc' = "done"
    /\ UNCHANGED op

BaseChannel ==
    [title |-> <<"C">>, uploader |-> <<"u">>,
     entries |-> ListVal(<<[id |-> V1, thumbnail |-> Absent]>>)]

ChannelRecords ==
    {[title |-> t, uploader |-> u, entries |-> es] :
        t \in {Absent, <<"C">>}, u \in {<<"u">>}, es \in EntriesValues}
        \cup {[BaseChannel EXCEPT !.title = t, !.uploader = u] :
                 t \in {Absent, NoneVal}, u \in {Absent, NoneVal}}

\* the call get_artist_info(artist_id, data=data)
ArtistCall(artist_id, cached, fetched) ==
    [artist_id |-> artist_id, cached |-> cached, fetched |-> fetched]

ArtistInputs ==
    {ArtistCall(<<"U", "C", "1">>, c, f) :
        c \in ChannelRecords, f \in {NoneDict, BaseChannel}}
    \cup
    {ArtistCall(<<"U", "C", "1">>, c, f) :
        c \in {MissingDict, NoneDict, EmptyDict},
        f \in ChannelRecords \cup {NoneDict, EmptyDict}}

InitArtist ==
    /\ op = "artist"
    /\ pc = "call"
    /\ arg \in ArtistInputs
    /\ ret = NoneVal

\* get_artist_info runs and returns or raises
GetArtistInfoCall ==
    /\ op = "artist"
    /\ pc = "call"
    /\ ret' = GetArtistInfo(arg.artist_id, arg.cached, arg.fetched)
    /\ arg' = [arg EXCEPT !.cached = ArtistCachedAfter(arg.artist_id, arg.cached, arg.fetched)]
    /\ pc' = "done"
    /\ UNCHANGED op

\* the three operations that read a record by id
InitFetch == InitCodec \/ InitPlaylist \/ InitArtist

NextFetch == GetTrackInfoCall \/ GetPlaylistInfoCall \/ GetArtistInfoCall

SpecFetch == InitFetch /\ [][NextFetch]_vars

---------------------------------------------------------------------------
(* Calls of get_track_download                                             *)

\* the extensions a file in the temporary directory can have
FileExtensions == {Opus, Mp3, M4a, Webm, Ogg, Aac}

\* the host downloads the track whose TrackInfo it holds: it passes the
\* download_extra_kwargs of the TrackInfo; yt-dlp raises or leaves files
GetTrackDownloadCall ==
    /\ op = "normalize"
    /\ pc = "done"
    /\ ret # TypeError
    /\ ret.error = NoneVal
    /\ \E raised \in BOOLEAN, files \in SUBSET FileExtensions :
          /\ ~raised \/ files = {}
          /\ arg' = [track_info |-> ret, raised |-> raised, files |-> files]
          /\ ret' = GetTrackDownload(
                        [video_id |-> ret.download_extra_kwargs.video_id,
                         track_id |-> Absent,
                         selected_format |-> ret.download_extra_kwargs.selected_format],
                        raised, files)
    /\ op' = "download"
    /\ UNCHANGED pc

\* a track is looked up and then downloaded
SpecDownload == InitCodec /\ [][GetTrackInfoCall \/ GetTrackDownloadCall]_vars

---------------------------------------------------------------------------
(* Warnings of yt-dlp delivered to YtDlpLogger.warning by concurrent fetches *)

YoutubeTag == <<"[", "y", "o", "u", "t", "u", "b", "e", "]", " ">>
SignIn == <<"S", "i", "g", "n", " ", "i", "n">>

\* the warnings yt-dlp gives: one message for two video ids and without a
\* prefix, the expired cookies with and without an id, a noisy one
WarningMessages ==
    {YoutubeTag \o <<"a", "1", ":", " ">> \o SignIn,
     YoutubeTag \o <<"b", "2", ":", " ">> \o SignIn,
     SignIn,
     YoutubeTag \o CookiesNoLongerValid,
     YoutubeTag \o <<"a", "1", ":", " ">> \o CookiesNoLongerValid,
     YoutubeTag \o NoJavaScriptRuntime}

\* the fetches that run at the same time, each in its thread
MaxWarnThreads == 2
WarnThreads == 1..MaxWarnThreads

\* the warnings one fetch gives
MaxWarnings == 2

\* op is "warning"; pc[t] is the statement thread t is at; arg[t] holds msg
\* and clean_msg of the call thread t is in and the number of calls it made;
\* ret holds the two globals and what was printed, message by message
InitWarning ==
    /\ op = "warning"
    /\ pc = [t \in WarnThreads |-> "idle"]
    /\ arg = [t \in WarnThreads |-> [msg |-> <<>>, clean_msg |-> <<>>, calls |-> 0]]
    /\ ret = [cookie_warning_shown |-> FALSE,
              shown_warnings |-> {},
              printed |-> [m \in WarningMessages |-> 0]]

\* thread t is at `from` and goes to `to`
Goes(t, from, to) == pc[t] = from /\ pc' = [pc EXCEPT ![t] = to]

\* warning(msg) is called in thread t: the noisy warnings return at once
WarningCall(t) ==
    /\ op = "warning"
    /\ pc[t] = "idle"
    /\ arg[t].calls < MaxWarnings
    /\ \E msg \in WarningMessages :
          /\ arg' = [arg EXCEPT ![t] = [msg |-> msg, clean_msg |-> <<>>,
                                        calls |-> @.calls + 1]]
          /\ pc' = [pc EXCEPT ![t] =
                        IF IsNoisy(msg) THEN "idle"
                        ELSE IF IsCookieWarning(msg) THEN "cookie_check"
                        ELSE "clean"]
    /\ UNCHANGED <<op, ret>>

\* if _cookie_warning_shown: return
CookieCheck(t) ==
    /\ op = "warning"
    /\ pc[t] = "cookie_check"
    /\ pc' = [pc EXCEPT ![t] = IF ret.cookie_warning_shown THEN "idle" ELSE "cookie_set"]
    /\ UNCHANGED <<op, arg, ret>>

\* _cookie_warning_shown = True
CookieSet(t) ==
    /\ op = "warning"
    /\ Goes(t, "cookie_set", "clean")
    /\ ret' = [ret EXCEPT !.cookie_warning_shown = TRUE]
    /\ UNCHANGED <<op, arg>>

\* clean_msg is computed; if clean_msg in _shown_warnings: return
CheckShown(t) ==
    /\ op = "warning"
    /\ pc[t] = "clean"
    /\ LET clean_msg == CleanMsg(arg[t].msg)
       IN  /\ arg' = [arg EXCEPT ![t].clean_msg = clean_msg]
           /\ pc' = [pc EXCEPT ![t] =
                         IF clean_msg \in ret.shown_warnings THEN "idle" ELSE "add"]
    /\ UNCHANGED <<op, ret>>

\* _shown_warnings.add(clean_msg)
AddShown(t) ==
    /\ op = "warning"
    /\ Goes(t, "add", "print")
    /\ ret' = [ret EXCEPT !.shown_warnings = @ \cup {arg[t].clean_msg}]
    /\ UNCHANGED <<op, arg>>

\* print(f"[YouTube Warning] {msg}")
PrintWarning(t) ==
    /\ op = "warning"
    /\ Goes(t, "print", "idle")
    /\ ret' = [ret EXCEPT !.printed[arg[t].msg] = @ + 1]
    /\ UNCHANGED <<op, arg>>

WarningStep ==
    \E t \in WarnThreads :
        \/ WarningCall(t)
        \/ CookieCheck(t)
        \/ CookieSet(t)
        \/ CheckShown(t)
        \/ AddShown(t)
        \/ PrintWarning(t)

SpecWarning == InitWarning /\ [][WarningStep]_vars

---------------------------------------------------------------------------
(* Operations that run at the same time under _managed_options: search,    *)
(* get_video_info, get_playlist_info, get_channel_info and download_audio  *)
(* all enter it the same way                                               *)

MaxOperations == 2
Operations == 1..MaxOperations

\* op is "cookies"; pc[o] is where operation o is; arg[o] holds its
\* temp_cookie_path, the 'cookiefile' of its opts, whether its body raised
\* and whether os.remove did; ret holds whether the configured cookies file
\* is there and the temporary files that exist, each with its creator
InitCookies ==
    /\ op = "cookies"
    /\ pc = [o \in Operations |-> "start"]
    /\ arg = [o \in Operations |->
                 [temp_cookie_path |-> NoPath, cookiefile |-> NoPath,
                  raised |-> FALSE, remove_failed |-> FALSE]]
    /\ ret \in [cookies : BOOLEAN, files : {{}}]

\* if self.cookies_path and os.path.isfile(self.cookies_path): mkstemp, close
Mkstemp(o) ==
    /\ op = "cookies"
    /\ pc[o] = "start"
    /\ IF ret.cookies
       THEN \E path \in FreshPaths(ret.files) :
               /\ ret' = [ret EXCEPT !.files = @ \cup {<<path, o>>}]
               /\ arg' = [arg EXCEPT ![o].temp_cookie_path = path]
               /\ pc' = [pc EXCEPT ![o] = "copy"]
       ELSE /\ pc' = [pc EXCEPT ![o] = "yield"]
            /\ UNCHANGED <<arg, ret>>
    /\ UNCHANGED op

\* shutil.copy2(self.cookies_path, temp_cookie_path) and
\* opts['cookiefile'] = temp_cookie_path; copy2 can raise
Copy(o) ==
    /\ op = "cookies"
    /\ pc[o] = "copy"
    /\ \/ /\ arg' = [arg EXCEPT ![o].cookiefile =
                         CookieFile(CookiesPath, arg[o].temp_cookie_path)]
          /\ pc' = [pc EXCEPT ![o] = "yield"]
       \/ /\ arg' = [arg EXCEPT ![o].raised = TRUE]
          /\ pc' = [pc EXCEPT ![o] = "finally"]
    /\ UNCHANGED <<op, ret>>

\* yield opts: the body of the with gives opts to YoutubeDL
Yield(o) ==
    /\ op = "cookies"
    /\ pc[o] = "yield"
    /\ pc' = [pc EXCEPT ![o] = "extract"]
    /\ UNCHANGED <<op, arg, ret>>

\* extract_info or download returns or raises, and the with is left
Extract(o) ==
    /\ op = "cookies"
    /\ pc[o] = "extract"
    /\ \E raised \in BOOLEAN : arg' = [arg EXCEPT ![o].raised = raised]
    /\ pc' = [pc EXCEPT ![o] = "finally"]
    /\ UNCHANGED <<op, ret>>

\* finally: os.remove(temp_cookie_path) when there is such a file; an
\* exception of os.remove is caught and a warning printed
Finally(o) ==
    /\ op = "cookies"
    /\ pc[o] = "finally"
    /\ IF /\ RunsFinally(arg[o].raised)
          /\ arg[o].temp_cookie_path # NoPath
          /\ \E f \in ret.files : f[1] = arg[o].temp_cookie_path
       THEN \/ /\ ret' = [ret EXCEPT !.files =
                              {f \in @ : f[1] # arg[o].temp_cookie_path}]
               /\ UNCHANGED arg
            \/ /\ arg' = [arg EXCEPT ![o].remove_failed = TRUE]
               /\ UNCHANGED ret
       ELSE UNCHANGED <<arg, ret>>
    /\ pc' = [pc EXCEPT ![o] = "done"]
    /\ UNCHANGED op

CookiesStep ==
    \E o \in Operations :
        \/ Mkstemp(o)
        \/ Copy(o)
        \/ Yield(o)
        \/ Extract(o)
        \/ Finally(o)

SpecCookies == InitCookies /\ [][CookiesStep]_vars

---------------------------------------------------------------------------
(* All the calls together                                                  *)

Init ==
    \/ InitStrip
    \/ InitSplit
    \/ InitClassify
    \/ InitFormat
    \/ InitThumb
    \/ InitNormalize
    \/ InitCodec
    \/ InitDate
    \/ InitMissing
    \/ InitCover
    \/ InitPlaylist
    \/ InitArtist
    \/ InitWarning
    \/ InitCookies

Next ==
    \/ CleanTitleCall
    \/ ParseTitleArtistCall
    \/ CustomUrlParseCall
    \/ GetPreviewStreamUrlCall
    \/ GetChannelThumbnailCall
    \/ GetTrackInfoCall
    \/ GetTrackDownloadCall
    \/ GetPlaylistInfoCall
    \/ GetArtistInfoCall
    \/ WarningStep
    \/ CookiesStep

Spec == Init /\ [][Next]_vars

---------------------------------------------------------------------------
(* Properties of _clean_title                                              *)

StripDone == op = "strip" /\ pc = "done" /\ arg.title # NoneVal

\* the string the tag removal of step 3 works on
TagStepInput == RemoveHashtags(ReplaceEnDash(arg.title))

\* the occurrences <<r, e>> of a vocabulary tag in t: the tag stands at r..e-1
TagOccurrences(t) ==
    UNION {{<<r, TagEnd(t, r, tags[TagsByFirst[LowerChar(t[r])][k]], 1)>> :
                k \in 1..Len(TagsByFirst[LowerChar(t[r])])} \ {<<r, 0>>} :
           r \in {x \in 1..Len(t) : LowerChar(t[x]) \in DOMAIN TagsByFirst}}

\* a closing delimiter or the end of the string follows the occurrence
ClosedAfter(t, o) == o[2] > Len(t) \/ t[o[2]] \in TrailDelims

\* an opening delimiter stands right before the occurrence
OpenedBefore(t, o) == o[1] > 1 /\ t[o[1] - 1] \in LeadDelims

\* nothing but whitespace stands before the occurrence
OnlySpaceBefore(t, o) == \A i \in 1..(o[1] - 1) : IsSpace(t[i])

\* the occurrence holds no opening delimiter itself
DelimiterFree(t, o) == \A i \in o[1]..(o[2] - 1) : t[i] \notin LeadDelims

ArtistSongOfficialMusicVideo ==
    <<"A", "r", "t", "i", "s", "t", " ", "-", " ", "S", "o", "n", "g", " ", "(", "O", "f", "f", "i", "c", "i", "a", "l", " ", "M", "u", "s", "i", "c", " ", "V", "i", "d", "e", "o", ")">>

ArtistSong ==
    <<"A", "r", "t", "i", "s", "t", " ", "-", " ", "S", "o", "n", "g">>

\* C3: strip is idempotent: cleaning the cleaned title again changes nothing,
\* also when removing one tag exposes another tag or a hashtag.
C3_StripIdempotent ==
    StripDone => CleanTitle(ret) = ret

\* C8: every occurrence of a vocabulary tag that has an opening delimiter right
\* before it and a closing delimiter or the end of the string after it is
\* removed by the tag removal, also when two tags share a delimiter, and
\* "Artist - Song (Official Music Video)" is cleaned to "Artist - Song".
C8_EveryDelimitedTagRemoved ==
    StripDone =>
        LET t == TagStepInput
            gone == MatchedIndices(t, 1)
        IN  /\ \A o \in TagOccurrences(t) :
                  OpenedBefore(t, o) /\ ClosedAfter(t, o)
                      => (o[1]..(o[2] - 1)) \subseteq gone
            /\ arg.title = ArtistSongOfficialMusicVideo => ret = ArtistSong

\* C9 as claimed: a tag followed by a closing delimiter or the end of the
\* string, with nothing but whitespace before it, is removed.
C9_OneSidedTagRemoved ==
    StripDone =>
        LET t == TagStepInput
            gone == MatchedIndices(t, 1)
        IN  \A o \in TagOccurrences(t) :
                OnlySpaceBefore(t, o) /\ ClosedAfter(t, o)
                    => (o[1]..(o[2] - 1)) \subseteq gone

\* C9 as amended: the tag removal removes no character other than whitespace
\* that has no opening delimiter at or before it, so a delimiter-free tag with
\* nothing but whitespace before it is kept whole, also when a closing
\* delimiter or the end of the string follows it.
C9_TagNeedsOpeningDelimiter ==
    StripDone =>
        LET t == TagStepInput
            gone == MatchedIndices(t, 1)
        IN  /\ \A x \in gone :
                  IsSpace(t[x]) \/ \E q \in 1..x : t[q] \in LeadDelims
            /\ \A o \in TagOccurrences(t) :
                  OnlySpaceBefore(t, o) /\ ClosedAfter(t, o) /\ DelimiterFree(t, o)
                      => (o[1]..(o[2] - 1)) \cap gone = {}

\* C9 witness: a title that starts (after whitespace) with a tag followed by a
\* closing delimiter, and that holds a properly opened tag behind it, has been
\* cleaned: the second tag is gone and the first one is still there.
C9_Witness ==
    /\ StripDone
    /\ LET t == TagStepInput
       IN  /\ \E o \in TagOccurrences(t) :
                 /\ OnlySpaceBefore(t, o)
                 /\ ClosedAfter(t, o)
                 /\ o[2] <= Len(t)
                 /\ StartsWithAt(ret, SubSeq(t, o[1], o[2] - 1), 1)
           /\ MatchedIndices(t, 1) # {}

\* C10: the cleaned title holds no '#' that is followed by a word character.
C10_NoHashtagInOutput ==
    StripDone =>
        \A i \in 1..(Len(ret) - 1) : ~(ret[i] = "#" /\ IsWord(ret[i + 1]))

---------------------------------------------------------------------------
(* Properties of _parse_title_artist                                       *)

SplitDone == op = "split" /\ pc = "done"

\* a cleaned title has no whitespace at either end
Trimmed(s) == s = <<>> \/ (~IsSpace(s[1]) /\ ~IsSpace(s[Len(s)]))

\* the indices of the separators of s that have whitespace on both sides
SurroundedSeparators(s) ==
    {p \in 2..(Len(s) - 1) :
        s[p] \in Separators /\ IsSpace(s[p - 1]) /\ IsSpace(s[p + 1])}

\* what stands left and right of the separator at p, without the whitespace
LeftOf(s, p) == StripStr(SubSeq(s, 1, p - 1))
RightOf(s, p) == StripStr(SubSeq(s, p + 1, Len(s)))

\* a is inside b, whatever the case
InsideNoCase(a, b) ==
    \E p \in 1..(Len(b) - Len(a) + 1) :
        \A k \in 1..Len(a) : LowerChar(b[p + k - 1]) = LowerChar(a[k])

\* C2: split("Review - Some Product", "TechReviewer") gives
\* ("TechReviewer", "Review - Some Product"): no split, the uploader is the
\* artist and the title is unchanged.
C2_ReviewNotSplit ==
    (SplitDone /\ arg.title = ReviewSomeProduct /\ arg.uploader = TechReviewer)
        => ret = <<TechReviewer, ReviewSomeProduct>>

---------------------------------------------------------------------------
(* Properties of parse_youtube_url                                         *)

ClassifyDone == op = "classify" /\ pc = "done"

\* the link carries a video reference: a video shape followed by 11 id
\* characters
CarriesVideo(link) ==
    \E k \in 1..Len(video_patterns) : \E h \in video_patterns[k] :
        \E p \in 1..Len(link) :
            /\ StartsWithAt(link, h, p)
            /\ \A j \in 0..(VideoIdLen - 1) :
                  p + Len(h) + j <= Len(link) /\ IsIdChar(link[p + Len(h) + j])

\* the indices of the link where a list parameter with an id starts
ListParams(link) ==
    {p \in 1..(Len(link) - 6) :
        /\ link[p] \in {"?", "&"}
        /\ SubSeq(link, p + 1, p + 5) = ListEquals
        /\ IsIdChar(link[p + 6])}

\* the id of the first list parameter of the link
ListId(link) ==
    LET p == Min(ListParams(link))
    IN  SubSeq(link, p + 6, SkipIdChars(link, p + 6) - 1)

\* C1: a link that carries a video reference and a list parameter is
\* classified as the playlist of the list id, not as the video; the link
\* https://youtube.com/watch?v=dQw4w9WgXcQ&list=PL123 is the playlist PL123.
C1_PlaylistBeforeVideo ==
    ClassifyDone =>
        /\ (CarriesVideo(arg.link) /\ ListParams(arg.link) # {})
              => ret.parsed = [type |-> "playlist", id |-> ListId(arg.link)]
        /\ arg.link = WatchWithList
              => ret.parsed = [type |-> "playlist", id |-> PL123]


\* a watch link with twelve id characters after v=
WatchWithLongId ==
    <<"h", "t", "t", "p", "s", ":", "/", "/">> \o YoutubeCom
        \o <<"/", "w", "a", "t", "c", "h", "?", "v", "=">>
        \o SubSeq(IdSource, 1, VideoIdLen + 1)

\* C20: whenever a link is classified as a video, the id is exactly 11
\* characters of [a-zA-Z0-9_-], also when more than 11 id characters follow
\* the video shape; custom_url_parse passes that id on as the media id.
C20_VideoIdHasElevenChars ==
    (ClassifyDone /\ ret.parsed.type = "video") =>
        /\ Len(ret.parsed.id) = 11
        /\ \A j \in 1..Len(ret.parsed.id) : IsIdChar(ret.parsed.id[j])
        /\ ret.media.media_type = "track"
        /\ ret.media.media_id = ret.parsed.id

\* C20, witness: a watch link with twelve id characters is the video of the
\* first eleven
C20_Witness ==
    /\ ClassifyDone
    /\ arg.link = WatchWithLongId
    /\ ret.parsed = [type |-> "video", id |-> SubSeq(IdSource, 1, VideoIdLen)]

\* the heads of the channel shapes: /channel/, /c/ and /@
ChannelHeads == UNION {channel_patterns[k] : k \in 1..Len(channel_patterns)}

\* the ids the channel shapes of the link carry: the id characters that
\* follow a channel head, when there is one at least
ChannelIds(link) ==
    {SubSeq(link, p + Len(h), SkipIdChars(link, p + Len(h)) - 1) :
        <<h, p>> \in {hp \in ChannelHeads \X (1..Len(link)) :
            /\ StartsWithAt(link, hp[1], hp[2])
            /\ SkipIdChars(link, hp[2] + Len(hp[1])) > hp[2] + Len(hp[1])}}

HandleLink ==
    <<"h", "t", "t", "p", "s", ":", "/", "/">> \o YoutubeCom
        \o <<"/", "@", "s", "o", "m", "e", "c", "h", "a", "n", "n", "e", "l">>

\* C21: a link that matches no video shape and carries no list parameter is
\* the channel of the captured id when it has a channel shape (/channel/<id>,
\* /c/<slug>, /@<handle>), and nothing when no pattern matches;
\* https://youtube.com/@somechannel is the channel somechannel.
C21_ChannelOrNothing ==
    (ClassifyDone /\ ~CarriesVideo(arg.link) /\ ListParams(arg.link) = {}) =>
        /\ IF ChannelIds(arg.link) # {}
           THEN /\ ret.parsed.type = "channel"
                /\ ret.parsed.id \in ChannelIds(arg.link)
                /\ ret.media = [media_type |-> "artist", media_id |-> ret.parsed.id,
                                data |-> {ret.parsed.id}]
           ELSE ret.parsed = NoLocator /\ ret.media = NoMedia
        /\ arg.link = HandleLink
              => ret.parsed = [type |-> "channel",
                               id |-> <<"s", "o", "m", "e", "c", "h", "a", "n", "n", "e", "l">>]

\* C21, witness: the handle link is classified as a channel
C21_Witness ==
    /\ ClassifyDone
    /\ arg.link = HandleLink
    /\ ret.parsed.type = "channel"
    /\ ret.media.media_type = "artist"
---------------------------------------------------------------------------
(* Properties of the format selection of get_preview_stream_url            *)

\* the selection ran to its end: the metadata was fetched and no test raised
FormatDone ==
    /\ op = "select_format" /\ pc = "done" /\ arg.fetched
    /\ \A k \in 1..Len(arg.formats) : ~TestRaises(arg.formats[k])

\* the eligible formats of the list whose codec is `codec`
EligibleOf(formats, codec) ==
    {formats[k] : k \in {j \in 1..Len(formats) :
        /\ formats[j].vcodec = NoneCodec
        /\ formats[j].acodec \notin {NoneCodec, NoneVal, Absent}
        /\ StartsWithAt(formats[j].acodec, codec, 1)}}

\* C4: the format selected is one of the first preferred codec that has an
\* eligible format, and has the lowest bitrate of the eligible formats of that
\* codec: never a format of a codec further down the list; and of the list
\* [mp3 128 kbps, opus 96 kbps] the opus format is selected.
C4_FirstPreferredCodecWins ==
    FormatDone =>
        /\ \A c \in 1..Len(preferred_codecs) :
              (/\ EligibleOf(arg.formats, preferred_codecs[c]) # {}
               /\ \A b \in 1..(c - 1) : EligibleOf(arg.formats, preferred_codecs[b]) = {})
              => /\ ret.selected \in EligibleOf(arg.formats, preferred_codecs[c])
                 /\ \A f \in EligibleOf(arg.formats, preferred_codecs[c]) :
                       Bitrate(ret.selected) <= Bitrate(f)
        /\ arg.formats = <<Fmt(Mp3, NoneCodec, 128, 0, <<"u", "5">>),
                           Fmt(Opus, NoneCodec, 96, 0, <<"u", "1">>)>>
              => ret.selected = Fmt(Opus, NoneCodec, 96, 0, <<"u", "1">>)


\* get_preview_stream_url returned for metadata that was fetched
FormatReturned == op = "select_format" /\ pc = "done" /\ arg.fetched

\* the audio-only formats of the list: vcodec is 'none' and acodec is not
AudioOnlyOf(formats) ==
    {formats[k] : k \in {j \in 1..Len(formats) :
        formats[j].vcodec = NoneCodec /\ formats[j].acodec # NoneCodec}}

\* the codec of the format starts with one of the preferred codecs
MatchesPreferred(fmt) ==
    /\ fmt.acodec \notin {NoneVal, Absent}
    /\ \E c \in 1..Len(preferred_codecs) : StartsWithAt(fmt.acodec, preferred_codecs[c], 1)

\* C19: the format selected is always audio-only (vcodec is 'none' and acodec
\* is not); when no audio-only format is of a preferred codec, the audio-only
\* format of the lowest bitrate of the whole list is selected; and when the
\* list holds no audio-only format, nothing is selected and None is returned.
C19_OnlyAudioOnlySelected ==
    FormatReturned =>
        LET eligible == AudioOnlyOf(arg.formats)
        IN  /\ ret.selected # NoFormat => ret.selected \in eligible
            /\ (eligible # {} /\ \A f \in eligible : ~MatchesPreferred(f))
                  => /\ ret.selected \in eligible
                     /\ \A f \in eligible : Bitrate(ret.selected) <= Bitrate(f)
            /\ eligible = {} => (ret.selected = NoFormat /\ ret.url = NoneVal)

\* C19 for lists in which no test of the first pass raises: the claim holds
C19_WhenNoTestRaises ==
    FormatDone => C19_OnlyAudioOnlySelected
---------------------------------------------------------------------------
(* Properties of get_channel_thumbnail                                     *)

ThumbDone == op = "channel_thumbnail" /\ pc = "done"

\* v is a str: neither None, nor a missing key, nor an int
IsStr(v) == v = <<>> \/ v[1] \notin {"None", "Absent", "int"}

\* the URL carries the banner marker: =s0 followed by '-', '?', '/' or the
\* end of the string
HasBannerMarker(u) ==
    \E p \in 1..(Len(u) - 2) :
        /\ SubSeq(u, p, p + 2) = <<"=", "s", "0">>
        /\ (p + 3 > Len(u) \/ u[p + 3] \in {"-", "?", "/"})

\* the URL is avatar-shaped: it has a size token =s<N> with N >= 1 and no
\* banner marker
AvatarShaped(u) ==
    /\ ~HasBannerMarker(u)
    /\ \E p \in 1..(Len(u) - 2) :
          /\ SubSeq(u, p, p + 1) = <<"=", "s">>
          /\ IsDigit(u[p + 2])
          /\ \E q \in (p + 2)..(SkipDigits(u, p + 2) - 1) : u[q] # "0"

\* the image URLs the channel info offers
ThumbCandidates(info) ==
    {v \in {info.thumbnail, info.channel_thumbnail}
            \cup {info.thumbnails[k].url : k \in 1..Len(info.thumbnails)} :
        IsStr(v) /\ v # <<>>}

\* C7: the channel avatar returned is never a URL with the banner marker, and
\* when no candidate is avatar-shaped nothing is returned: no banner URL and no
\* other value in its place.
C7_NeverBanner ==
    ThumbDone =>
        /\ IsStr(ret) => ~HasBannerMarker(ret)
        /\ (\A u \in ThumbCandidates(arg.info) : ~AvatarShaped(u)) => ret = NoneVal

---------------------------------------------------------------------------
(* Properties of get_track_info                                            *)

NormalizeDone == op = "normalize" /\ pc = "done"

\* C5: the title and the artist of the record returned are never both empty,
\* also when the raw title is nothing but a removable tag and the uploader is
\* nothing but the " - Topic" marker, without a channel name to fall back on.
C5_TitleAndArtistNotBothEmpty ==
    NormalizeDone => ~(ret.name = <<>> /\ ret.artists[1] = <<>>)

\* get_track_info returned a TrackInfo
TrackInfoReturned == NormalizeDone /\ ret # TypeError

\* the record of the call is missing: data holds nothing usable under the id
\* and the fetch returns nothing
NoRecord(d) == d \in {MissingDict, NoneDict, EmptyDict}

C12_AbsentRecordGivesErrorRecord ==
    (NormalizeDone /\ NoRecord(arg.cached) /\ NoRecord(arg.fetched)) =>
        /\ ret # TypeError
        /\ ret.error = FailedToGetVideoInformation
        /\ ret.error # <<>>
        /\ ret.codec = "OPUS"

C12_Witness ==
    /\ NormalizeDone
    /\ arg.cached = EmptyDict
    /\ arg.fetched = NoneDict
    /\ arg.quality_tier = "LOW"
    /\ ret.error = FailedToGetVideoInformation


\* the uploader as C15 words it: the first non-empty of uploader, channel and
\* 'Unknown', without one trailing ' - Topic', and the channel name passed
\* along in its place only when it is 'Unknown'
FirstNamedUploader(video_data, channel_name) ==
    LET named == Or(Get(video_data.uploader), Or(Get(video_data.channel), Unknown))
        bare == IF EndsWith(named, TopicSuffix)
                THEN SubSeq(named, 1, Len(named) - Len(TopicSuffix))
                ELSE named
    IN  IF bare = Unknown /\ Truthy(Get(channel_name)) THEN channel_name ELSE bare

IsIsoDate(d) ==
    /\ Len(d) = 10
    /\ d[5] = "-" /\ d[8] = "-"
    /\ \A k \in {1, 2, 3, 4, 6, 7, 9, 10} : IsDigit(d[k])

\* C16: the upload date never makes get_track_info raise; release_year is the
\* integer of the first four characters when the date has four or more and
\* they spell an integer, and 2024 otherwise; release_date is given only for a
\* date of eight characters, and every release_date given is of the form
\* YYYY-MM-DD, made of digits.
C16_DateParsedOrDefault ==
    (NormalizeDone /\ arg.fetched.upload_date \notin {Absent, NoneVal}) =>
        LET upload_date == arg.fetched.upload_date
            year == ParseInt(SubSeq(upload_date, 1, 4))
        IN  /\ ret # TypeError
            /\ ret.release_year = IF Len(upload_date) >= 4 /\ year # ValueError
                                  THEN year ELSE IntVal(2024)
            /\ ret.tags.release_date # NoneVal =>
                  /\ Len(upload_date) = 8
                  /\ IsIsoDate(ret.tags.release_date)

\* C17: get_track_info does not raise for a record that only misses fields or
\* holds None for them: title, uploader, channel, channel_id, duration,
\* upload_date, thumbnail, description, and the width, height and url of an
\* entry of thumbnails; a TrackInfo without error is returned.
C17_MissingFieldsDoNotRaise ==
    NormalizeDone => (ret # TypeError /\ ret.error = NoneVal)

\* a dimension as C18 counts it: 0 when it is missing
CountedDimension(v) == IF v \in {Absent, NoneVal} THEN 0 ELSE v[2]

\* width*height as C18 counts it
CountedArea(t) == CountedDimension(t.width) * CountedDimension(t.height)

\* the entries C18 lets the selection choose: those of the largest area, and
\* only the first one when no entry has an area
Choosable(thumbnails) ==
    LET largest == {k \in 1..Len(thumbnails) :
            \A j \in 1..Len(thumbnails) : CountedArea(thumbnails[j]) <= CountedArea(thumbnails[k])}
    IN  IF \A j \in 1..Len(thumbnails) : CountedArea(thumbnails[j]) = 0
        THEN {1} ELSE largest

\* the cover C18 gives for a chosen entry: its url, and 'thumbnail' of the
\* record ('' without one) when the entry has no url
CoverOf(t, thumbnail) ==
    IF Truthy(Get(t.url)) THEN t.url
    ELSE IF Truthy(Get(thumbnail)) THEN thumbnail ELSE <<>>

\* C18: cover_url is the url of the entry of thumbnails with the largest
\* width*height, a missing dimension counted as 0: no entry without
\* dimensions is chosen over one with an area, the first entry is chosen when
\* none has dimensions, and the record's 'thumbnail' is used when the list is
\* empty or the chosen entry has no url.
C18_CoverIsLargestThumbnail ==
    NormalizeDone =>
        LET video_data == arg.fetched
            thumbnail == video_data.thumbnail
        IN  /\ ret # TypeError
            /\ IF HasThumbnails(video_data)
               THEN \E k \in Choosable(Items(video_data.thumbnails)) :
                        ret.cover_url = CoverOf(Items(video_data.thumbnails)[k], thumbnail)
               ELSE ret.cover_url = (IF Truthy(Get(thumbnail)) THEN thumbnail ELSE <<>>)

\* C18 for records whose entries hold no None: the claim holds of them
C18_CoverWithoutNone ==
    (NormalizeDone /\ HasThumbnails(arg.fetched)
        /\ \A k \in 1..Len(Items(arg.fetched.thumbnails)) :
              LET t == Items(arg.fetched.thumbnails)[k]
              IN  NoneVal \notin {t.url, t.width, t.height})
    => C18_CoverIsLargestThumbnail
---------------------------------------------------------------------------
(* Properties of the operations that read a record by id                   *)

\* the operation returned a record that carries an error
ErrorRecordReturned ==
    /\ ret \notin {ModuleError, TypeError}
    /\ "error" \in DOMAIN ret
    /\ ret.error \notin {NoneVal, <<>>}

\* get_track_info asked for the record of the id and got nothing
TrackNotFound ==
    /\ op = "normalize" /\ pc = "done"
    /\ NoRecord(arg.cached) /\ NoRecord(arg.fetched)

\* data held no playlist with entries under the id
NoCachedPlaylist ==
    NoRecord(arg.cached) \/ arg.cached.entries \in {Absent, NoneVal, ListVal(<<>>)}

\* get_playlist_info asked for the playlist of the id (for the uploads
\* playlist first when the id is a channel id) and got nothing
PlaylistNotFound ==
    /\ op = "playlist" /\ pc = "done"
    /\ NoCachedPlaylist
    /\ NoRecord(arg.fetched)
    /\ SubSeq(arg.playlist_id, 1, 2) = <<"U", "C">> => NoRecord(arg.fetched_uploads)

\* get_artist_info asked for the channel of the id and got nothing
ChannelNotFound ==
    /\ op = "artist" /\ pc = "done"
    /\ NoRecord(arg.cached) \/ arg.cached.entries = Absent
    /\ NoRecord(arg.fetched)

\* C13: whenever the fetch returns nothing for the id asked for, a video, a
\* playlist or a channel, the operation returns a record that carries an
\* error and does not raise.
C13_NotFoundGivesErrorRecord ==
    (TrackNotFound \/ PlaylistNotFound \/ ChannelNotFound) => ErrorRecordReturned

\* C13 as amended: for a video the record with the error is returned; for a
\* playlist and for a channel the module's exception is raised, unless data
\* held a record of the channel without entries, which then is the one used.
C13_NotFoundRaisesExceptForVideo ==
    /\ TrackNotFound => ErrorRecordReturned
    /\ PlaylistNotFound => ret = ModuleError
    /\ ChannelNotFound =>
          IF NoRecord(arg.cached) THEN ret = ModuleError
          ELSE /\ ret \notin {ModuleError, TypeError}
               /\ ret.name = GetOr(arg.cached.title, GetOr(arg.cached.uploader, Unknown))
               /\ ret.tracks = <<>>

C13_Witness ==
    /\ PlaylistNotFound
    /\ arg.playlist_id = <<"U", "C", "1">>
    /\ arg.cached # MissingDict
    /\ ~NoRecord(arg.cached)
    /\ ret = ModuleError


\* one of the three operations returns or raises in this step
FetchReturns == op \in {"normalize", "playlist", "artist"} /\ pc = "call" /\ pc' = "done"

PlaylistDone == op = "playlist" /\ pc = "done"

\* the cached record of the id has a list of entries that is not empty
HasCachedEntries == DictTruthy(arg.cached) /\ ListTruthy(arg.cached.entries)

\* what the k-th fetch of the call returned: for a channel id the first is
\* the one of the uploads playlist
FetchResult(k) ==
    IF IsChannelId(arg.playlist_id) /\ k = 1
    THEN ApiGetPlaylistInfo(arg.fetched_uploads)
    ELSE ApiGetPlaylistInfo(arg.fetched)

\* C25: get_playlist_info uses the cached record without a fetch only when it
\* has a non-empty entries list; otherwise, for an id that starts with UC it
\* fetches the uploads playlist 'UU' + id[2:] first and the id itself only if
\* that returned nothing, and for any other id it fetches the id once; it
\* raises the module error exactly when every fetch it made returned nothing.
C25_FetchesOfGetPlaylistInfo ==
    PlaylistDone =>
        /\ arg.fetches = <<>> <=> HasCachedEntries
        /\ HasCachedEntries =>
              (ret # ModuleError /\ ret.name = GetOr(arg.cached.title, UnknownPlaylist))
        /\ (~HasCachedEntries /\ IsChannelId(arg.playlist_id)) =>
              /\ arg.fetches[1] = <<"U", "U">> \o SubSeq(arg.playlist_id, 3, Len(arg.playlist_id))
              /\ Len(arg.fetches) = (IF DictTruthy(FetchResult(1)) THEN 1 ELSE 2)
              /\ Len(arg.fetches) = 2 => arg.fetches[2] = arg.playlist_id
        /\ (~HasCachedEntries /\ ~IsChannelId(arg.playlist_id)) =>
              arg.fetches = <<arg.playlist_id>>
        /\ ret = ModuleError <=>
              (arg.fetches # <<>> /\ \A k \in 1..Len(arg.fetches) : ~DictTruthy(FetchResult(k)))

\* C25, witness: for a channel id without a usable cached record the uploads
\* playlist gave nothing, the id itself was fetched next, and a PlaylistInfo
\* was returned
C25_Witness ==
    /\ PlaylistDone
    /\ ~HasCachedEntries
    /\ arg.fetches = <<<<"U", "U", "1">>, <<"U", "C", "1">>>>
    /\ ret # ModuleError /\ ret # TypeError
    /\ ret.name = <<"P">>
---------------------------------------------------------------------------
(* Properties of get_track_download                                        *)

\* the download returned a TrackDownloadInfo
Downloaded == op = "download" /\ pc = "done" /\ ret.result # ModuleError

DeliveredAsPreferred ==
    \/ ret.preferred_codec = Opus /\ ret.result.temp_file_path = Opus
    \/ ret.preferred_codec = Mp3 /\ ret.result.temp_file_path = Mp3
    \/ ret.preferred_codec = Aac /\ ret.result.temp_file_path = M4a

---------------------------------------------------------------------------
(* Properties of YtDlpLogger.warning under concurrent fetches              *)

\* how often a message of the set was printed
TimesPrinted(messages) ==
    Cardinality({mk \in messages \X (1..(MaxWarnThreads * MaxWarnings)) :
                    mk[2] <= ret.printed[mk[1]]})

\* C23: however the warning callbacks of concurrent fetches interleave, the
\* messages with one and the same text after the '[extractor] id:' prefix are
\* printed once at most, and so is the warning of the expired cookies: no two
\* threads both pass the test of the set of shown warnings and print.
C23_EachWarningPrintedOnce ==
    op = "warning" =>
        /\ LET shown == {m \in WarningMessages : ret.printed[m] > 0}
               clean == [m \in shown |-> CleanMsg(m)]
           IN  \A m \in shown :
                  TimesPrinted({x \in shown : clean[x] = clean[m]}) <= 1
        /\ TimesPrinted({x \in WarningMessages : IsCookieWarning(x)}) <= 1

---------------------------------------------------------------------------
(* Properties of _managed_options                                          *)

\* the operations that YoutubeDL is running for, with the cookies configured
Extracting == {o \in Operations : pc[o] = "extract"}

AllDone == \A o \in Operations : pc[o] = "done"

\* what C24 says of the paths given to YoutubeDL: a temporary copy, never the
\* configured file, never the path of another running operation
OwnTemporaryCopy ==
    /\ \A o \in Extracting :
          /\ arg[o].cookiefile \in TempPaths
          /\ arg[o].cookiefile # CookiesPath
          /\ <<arg[o].cookiefile, o>> \in ret.files
    /\ \A o, p \in Extracting : o # p => arg[o].cookiefile # arg[p].cookiefile

\* C24: an operation that runs with a configured, existing cookies file
\* works on its own temporary copy (never the configured file, never the
\* path of an operation running at the same time), and when it has ended, by
\* a return or by an exception, its copy is deleted: no temporary cookie
\* file is left once all operations have ended.
C24_TemporaryCopyAlwaysDeleted ==
    (op = "cookies" /\ ret.cookies) =>
        /\ OwnTemporaryCopy
        /\ \A o \in Operations :
              pc[o] = "done" => \A f \in ret.files : f[2] # o
        /\ AllDone => ret.files = {}

\* C24, amended: the same, but the copy of an operation that has ended is
\* deleted unless os.remove failed for it; the files left once all
\* operations have ended are those whose removal failed.
C24_TemporaryCopyDeletedUnlessRemoveFails ==
    (op = "cookies" /\ ret.cookies) =>
        /\ OwnTemporaryCopy
        /\ \A o \in Operations :
              pc[o] = "done" =>
                 ((\E f \in ret.files : f[2] = o) <=> arg[o].remove_failed)
        /\ AllDone =>
              ret.files = {<<arg[o].temp_cookie_path, o>> :
                             o \in {p \in Operations : arg[p].remove_failed}}

\* C24, witness: all operations have ended, each had its own copy, one ended
\* by an exception of the extraction and one by a return, and no file is left
C24_Witness ==
    /\ op = "cookies" /\ ret.cookies /\ AllDone
    /\ \A o \in Operations : arg[o].cookiefile \in TempPaths
    /\ \E o, p \in Operations : arg[o].raised /\ ~arg[p].raised
    /\ ret.files = {}
=============================================================================
